---------------------------- MODULE Spec2Model ----------------------------
(***************************************************************************)
(* A model of the tinygo-org/pio control layer: the program-memory         *)
(* allocator of one PIO block (rp2-pio/pio.go, with the older             *)
(* rp2040-pio/pio.go beside it) and the state-machine init sequence        *)
(* (rp2-pio/statemachine.go).                                              *)
(*                                                                         *)
(* Representation.  A uint32 register or mask is the set of its set bit    *)
(* positions, a subset of 0..31 (TLC's integers stop at 2^31-1): OR is     *)
(* union, AND is intersection, AND-NOT is set difference, and a left shift *)
(* drops the bits that leave the 32-bit word.  A 16-bit instruction word   *)
(* is an integer in 0..65535.  uint8 and int8 values are integers reduced  *)
(* with U8 and ToInt8 wherever the Go code converts or wraps them.         *)
(***************************************************************************)
EXTENDS Integers, Sequences, FiniteSets, TLC

\* ------------------------------------------------------------------------
\* Bounds of the model (not program constants).
\* ------------------------------------------------------------------------

\* Calls made on the PIO block in one behaviour.
MaxCalls == 3

\* Init and SetEnabled calls made on the state machines in one behaviour.
MaxSmCalls == 2

\* Side and Delay calls applied to one instruction.
MaxAsmMods == 2

\* Setter calls made on one StateMachineConfig.
MaxCfgCalls == 3

\* TryClaim, ClaimStateMachine and Unclaim calls made on one PIO block.
MaxClaimCalls == 5

\* Bytes in one SPI.Tx call.
MaxSpiBytes == 2

\* ------------------------------------------------------------------------
\* Program constants.
\* ------------------------------------------------------------------------

\* Instruction-memory words per PIO block ("32 instructions max").
MemWords == 32

\* The jump opcode (the top three bits of the word are 000).
INSTR_BITS_JMP == 0

\* JmpCond value of an unconditional jump.
JmpAlways == 0

WordIdx == 0 .. (MemWords - 1)
Bit32   == 0 .. 31

\* ------------------------------------------------------------------------
\* Fixed-width arithmetic.
\* ------------------------------------------------------------------------

\* uint8(x): the low eight bits.
U8(x) == x % 256

\* uint16(x): the low sixteen bits.
U16(x) == x % 65536

\* int8(x): the low eight bits read as a signed byte.
ToInt8(x) == LET m == x % 256 IN IF m >= 128 THEN m - 256 ELSE m

\* x << k on a uint32: Go shifts by any count, bits leaving the word are lost.
Shl32(S, k) == {i + k : i \in S} \cap Bit32

\* uint32((1 << n) - 1): the constant 1 takes the type uint32, so for
\* n >= 32 the shift gives 0 and the subtraction wraps to 0xFFFFFFFF.
ProgramMask(n) == IF n < 32 THEN 0 .. (n - 1) ELSE Bit32

\* ------------------------------------------------------------------------
\* Instruction encoding (rp2-pio/instr.go).
\* ------------------------------------------------------------------------

\* AssemblerV0.instrArgs: instr | uint16(arg1) << 5 | uint16(arg2 & 0x1f).
\* The callers modelled here pass arg1 < 8 and an instr whose low eight bits
\* are clear, so the ORs are sums.
instrArgs(instr, arg1, arg2) == instr + arg1 * 32 + (arg2 % 32)

\* AssemblerV0.Jmp(addr, cond).Encode()
Jmp(addr, cond) == instrArgs(INSTR_BITS_JMP, cond % 8, addr)

\* Decoding of a word: opcode bits, 5-bit address field, the remaining bits.
\* instr & _INSTR_BITS_Msk: the mask is the top three bits of the word.
Major(w) == (w \div 8192) * 8192
AddrField(w) == w % 32
OtherBits(w) == w - (w % 32)
IsJmp(w) == Major(w) = INSTR_BITS_JMP

\* Set(dest x, value): a non-jump word used as program filler.
INSTR_BITS_SET == 57344
EncodeSetX(value) == instrArgs(INSTR_BITS_SET, 1, value)

\* EncodeJmp(addr, condition), the encoder StateMachine.Init calls:
\* encodeInstrAndArgs(_INSTR_BITS_JMP, uint8(condition&0b111), addr).
EncodeJmp(addr, condition) == instrArgs(INSTR_BITS_JMP, condition % 8, addr)

\* ------------------------------------------------------------------------
\* The assembler (rp2-pio/instr.go).  An instructionV0 is its 16-bit word
\* together with the SidesetBits of the assembler that made it.
\* ------------------------------------------------------------------------

\* Opcode bits of the instructions.
INSTR_BITS_WAIT == 8192
INSTR_BITS_IN == 16384
INSTR_BITS_OUT == 24576
INSTR_BITS_PUSH == 32768
INSTR_BITS_PULL == 32896
INSTR_BITS_MOV == 40960
INSTR_BITS_IRQ == 49152

\* InstrKind, an iota enumeration of nine values.
InstrJMP == 0
InstrWAIT == 1
InstrIN == 2
InstrOUT == 3
InstrPUSH == 4
InstrPULL == 5
InstrMOV == 6
InstrIRQ == 7
InstrSET == 8
InstrKinds == {InstrJMP, InstrWAIT, InstrIN, InstrOUT, InstrPUSH, InstrPULL,
               InstrMOV, InstrIRQ, InstrSET}

\* The set bits of a 16-bit word, and the word of a set of bits.
Bits16(n) == {b \in 0 .. 15 : (n \div (2 ^ b)) % 2 = 1}
Val16(S) ==
    LET v[b \in 0 .. 16] ==
            IF b = 16 THEN 0 ELSE (IF b \in S THEN 2 ^ b ELSE 0) + v[b + 1]
    IN v[0]

\* x << k on a uint16.
Shl16(S, k) == {i + k : i \in S} \cap (0 .. 15)

\* delaySidesetbits: 0b1_1111 << 8
delaySidesetbits == 8 .. 12

\* boolAsU8(b)
boolAsU8(b) == IF b THEN 1 ELSE 0

\* EncodeInstr(instr, delaySideset, arg1_3b, arg2_5b):
\* uint16(instr&0b111)<<13 | uint16(delaySideset&0x1f)<<8
\*   | uint16(arg1_3b&0b111)<<5 | uint16(arg2_5b&0x1f)
EncodeInstr(instr, delaySideset, arg1_3b, arg2_5b) ==
    (instr % 8) * 8192 + (delaySideset % 32) * 256 + (arg1_3b % 8) * 32 + (arg2_5b % 32)

\* AssemblerV0.encodeIRQ(relative, irq): boolAsU8(relative)<<4 | irq&0b111
encodeIRQ(relative, irq) == boolAsU8(relative) * 16 + (irq % 8)

\* AssemblerV0.instrSrcDest(instr, srcDest, value)
instrSrcDest(instr, srcDest, value) == instrArgs(instr, srcDest % 8, value)

\* AssemblerV0.sidesetbits(): delaySidesetbits & (uint16(0b111) << (13 - SidesetBits))
sidesetbits(SidesetBits) == delaySidesetbits \cap Shl16({0, 1, 2}, U8(13 - SidesetBits))

\* AssemblerV0.delaybits(): delaySidesetbits & (0b11111 << (8 - SidesetBits))
delaybits(SidesetBits) == delaySidesetbits \cap Shl16(0 .. 4, U8(8 - SidesetBits))

\* A Side that leaves the word as it is.
sideIgnored(instr, SidesetBits, value) == instr

\* instructionV0.Side(value) on the word instr:
\* instr &^= sidesetbits(); instr |= uint16(value) << (13 - SidesetBits)
Side(instr, SidesetBits, value) ==
    Val16((Bits16(instr) \ sidesetbits(SidesetBits))
          \cup Shl16(Bits16(U8(value)), U8(13 - SidesetBits)))

\* instructionV0.Delay(cycles) on the word instr:
\* instr &^= delaybits(); instr |= uint16(0b11111&cycles) << 8
Delay(instr, SidesetBits, cycles) ==
    Val16((Bits16(instr) \ delaybits(SidesetBits)) \cup Shl16(Bits16(cycles % 32), 8))

\* The assembler methods, by name; a and b are the arguments in the order
\* of the Go signature, a bool given as 0 or 1 (Push and Pull: ifFull/ifEmpty
\* and block; WaitIRQ: a holds polarity + 2*relative).
MethodWord(m, a, b) ==
    CASE m = "Jmp"        -> Jmp(a, b)
      [] m = "WaitPin"    -> instrArgs(INSTR_BITS_WAIT, 1 + boolAsU8(a = 1) * 4, b)
      [] m = "WaitIRQ"    -> instrArgs(INSTR_BITS_WAIT, 2 + boolAsU8(a % 2 = 1) * 4,
                                       encodeIRQ(a \div 2 = 1, b))
      [] m = "WaitGPIO"   -> instrArgs(INSTR_BITS_WAIT, 0 + boolAsU8(a = 1) * 4, b)
      [] m = "In"         -> instrSrcDest(INSTR_BITS_IN, a, b)
      [] m = "Out"        -> instrSrcDest(INSTR_BITS_OUT, a, b)
      [] m = "Push"       -> instrArgs(INSTR_BITS_PUSH, boolAsU8(a = 1) * 2 + boolAsU8(b = 1), 0)
      [] m = "Pull"       -> instrArgs(INSTR_BITS_PULL, boolAsU8(a = 1) * 2 + boolAsU8(b = 1), 0)
      [] m = "Mov"        -> instrSrcDest(INSTR_BITS_MOV, a, b % 8)
      [] m = "MovInvert"  -> instrSrcDest(INSTR_BITS_MOV, a, 8 + (b % 8))
      [] m = "MovReverse" -> instrSrcDest(INSTR_BITS_MOV, a, 16 + (b % 8))
      [] m = "IRQSet"     -> instrArgs(INSTR_BITS_IRQ, 0, encodeIRQ(a = 1, b))
      [] m = "IRQClear"   -> instrArgs(INSTR_BITS_IRQ, 2, encodeIRQ(a = 1, b))
      [] m = "Set"        -> instrSrcDest(INSTR_BITS_SET, a, b)
      [] m = "Nop"        -> instrSrcDest(INSTR_BITS_MOV, 2, 2 % 8)

\* The package-level encodeIRQ(relative, irq): boolAsU8(relative) << 4.
\* The argument irq is not used.
encodeIRQ_func(relative, irq) == boolAsU8(relative) * 16

\* EncodeWaitIRQ(polarity, relative, irq):
\* flag := boolAsU8(polarity) << 2
\* encodeInstrAndArgs(_INSTR_BITS_WAIT, 2|flag, encodeIRQ(relative, irq))
EncodeWaitIRQ(polarity, relative, irq) ==
    instrArgs(INSTR_BITS_WAIT, 2 + boolAsU8(polarity) * 4, encodeIRQ_func(relative, irq))

\* EncodeIRQSet(relative, irq): encodeInstrAndArgs(_INSTR_BITS_IRQ, 0, encodeIRQ(relative, irq))
EncodeIRQSet(relative, irq) == instrArgs(INSTR_BITS_IRQ, 0, encodeIRQ_func(relative, irq))

\* EncodeIRQClear(relative, irq): encodeInstrAndArgs(_INSTR_BITS_IRQ, 2, encodeIRQ(relative, irq))
EncodeIRQClear(relative, irq) == instrArgs(INSTR_BITS_IRQ, 2, encodeIRQ_func(relative, irq))

\* The package-level IRQ encoders, by name, with the arguments packed as
\* for the assembler methods.
FuncWord(m, a, b) ==
    CASE m = "EncodeWaitIRQ"  -> EncodeWaitIRQ(a % 2 = 1, a \div 2 = 1, b)
      [] m = "EncodeIRQSet"   -> EncodeIRQSet(a = 1, b)
      [] m = "EncodeIRQClear" -> EncodeIRQClear(a = 1, b)

\* ------------------------------------------------------------------------
\* Clock divider values (rp2-pio/instr.go).
\* ------------------------------------------------------------------------

\* math.MaxUint16
MaxUint16 == 65535

\* A rounding quotient in place of the truncating one.
roundedClkdiv(freq, cpuFreq) == (256 * cpuFreq + freq \div 2) \div freq

\* 256 * uint64(cpuFreq) / uint64(freq), for freq > 0: the uint64 product of
\* 256 and a uint32 cannot wrap, and the division truncates.
rawClkdiv(freq, cpuFreq) == (256 * cpuFreq) \div freq

\* splitClkdiv(clkdiv): (whole, frac, err)
splitClkdiv(clkdiv) ==
    IF clkdiv > 256 * MaxUint16
    THEN [whole |-> 0, frac |-> 0, err |-> "too large"]
    ELSE IF clkdiv < 256
    THEN [whole |-> 0, frac |-> 0, err |-> "too small"]
    ELSE [whole |-> U16(clkdiv \div 256), frac |-> U8(clkdiv % 256), err |-> "nil"]

\* ClkDivFromFrequency(freq, cpuFreq): the integer division panics at run
\* time when freq is 0, and nothing is returned.
ClkDivFromFrequency(freq, cpuFreq) ==
    IF freq = 0
    THEN [whole |-> 0, frac |-> 0, err |-> "panic"]
    ELSE splitClkdiv(rawClkdiv(freq, cpuFreq))

\* Unsigned integers wider than 31 bits are sets of bit positions: the
\* uint64 values of ClkDivFromPeriod are subsets of Bit64, and the exact
\* products they stand for are subsets of WideBits.
Bit64 == 0 .. 63
WideBits == 0 .. 79

\* The number whose bits are S, for S within 0 .. 30.
ValOfBits(S) ==
    LET v[b \in 0 .. 31] ==
            IF b = 31 THEN 0 ELSE (IF b \in S THEN 2 ^ b ELSE 0) + v[b + 1]
    IN v[0]

\* A * B from bit k upward, exactly (the operands are below 2^40 and 2^32):
\* the partial products of column k and the carry out of column k - 1 are
\* counted, and bit k of the product is the parity of the count.
RECURSIVE mulLoop(_, _, _, _)
mulLoop(A, B, k, carry) ==
    IF k \notin WideBits THEN {}
    ELSE LET t == Cardinality({i \in A : (k - i) \in B}) + carry
         IN (IF t % 2 = 1 THEN {k} ELSE {}) \cup mulLoop(A, B, k + 1, t \div 2)

mulBits(A, B) == mulLoop(A, B, 0, 0)

\* The uint64 product: the exact product modulo 2^64.
Mul64(A, B) == mulBits(A, B) \cap Bit64

\* The quotient bits of N / d from bit i downward, truncating, rem being
\* the remainder of the bits above i (d is at most 2^30, so 2 * rem + 1
\* stays in range).
RECURSIVE divLoop(_, _, _, _)
divLoop(N, d, i, rem) ==
    IF i < 0 THEN {}
    ELSE LET r2 == 2 * rem + boolAsU8(i \in N)
         IN IF r2 >= d
            THEN {i} \cup divLoop(N, d, i - 1, r2 - d)
            ELSE divLoop(N, d, i - 1, r2)

\* N / uint64(1e9), truncating.
DivBy1e9(N) == divLoop(N, 1000000000, 79, 0)

\* splitClkdiv on a value given by its bits: anything with a bit above 30
\* is beyond 256 * math.MaxUint16.
splitClkdivBits(C) ==
    IF C \ (0 .. 30) # {}
    THEN [whole |-> 0, frac |-> 0, err |-> "too large"]
    ELSE splitClkdiv(ValOfBits(C))

\* ------------------------------------------------------------------------
\* Register layout used by the state-machine code (bit positions of the
\* fields named in rp2-pio/statemachine.go and rp2-pio/config.go).
\* ------------------------------------------------------------------------

\* State machines per PIO block: Init panics for sm.index > 3.
MaxSmIndex == 3
SmIdx == 0 .. MaxSmIndex

\* CTRL: one SM_ENABLE, SM_RESTART and CLKDIV_RESTART bit per state machine.
CTRL_SM_ENABLE_Pos == 0
CTRL_SM_RESTART_Pos == 4
CTRL_CLKDIV_RESTART_Pos == 8

\* FDEBUG: one RXSTALL, RXUNDER, TXOVER and TXSTALL bit per state machine.
FDEBUG_RXSTALL_Pos == 0
FDEBUG_RXUNDER_Pos == 8
FDEBUG_TXOVER_Pos == 16
FDEBUG_TXSTALL_Pos == 24

\* SMx_CLKDIV
CLKDIV_FRAC_Pos == 8
CLKDIV_INT_Pos == 16

\* SMx_EXECCTRL
EXECCTRL_WRAP_BOTTOM_Pos == 7
EXECCTRL_WRAP_TOP_Pos == 12
EXECCTRL_WRAP_BOTTOM_Msk == 7 .. 11
EXECCTRL_WRAP_TOP_Msk == 12 .. 16

\* SMx_SHIFTCTRL
SHIFTCTRL_AUTOPUSH_Pos == 16
SHIFTCTRL_AUTOPULL_Pos == 17
SHIFTCTRL_IN_SHIFTDIR_Pos == 18
SHIFTCTRL_OUT_SHIFTDIR_Pos == 19
SHIFTCTRL_PUSH_THRESH_Pos == 20
SHIFTCTRL_PULL_THRESH_Pos == 25
SHIFTCTRL_PUSH_THRESH_Msk == 20 .. 24
SHIFTCTRL_PULL_THRESH_Msk == 25 .. 29
SHIFTCTRL_FJOIN_RX_Msk == {31}

\* Words a TX FIFO holds when the FIFOs are not joined.
FifoDepth == 4

\* The set bits of a value below 2^31.
BitsOf(n) == {b \in 0 .. 30 : (n \div (2 ^ b)) % 2 = 1}

\* uint32(value) << pos
Field(value, pos) == Shl32(BitsOf(value), pos)

\* ClkDivFromPeriod(period, cpuFreq):
\* splitClkdiv(256 * uint64(period) * uint64(cpuFreq) / uint64(1e9))
ClkDivFromPeriod(period, cpuFreq) ==
    splitClkdivBits(DivBy1e9(Mul64(Mul64(BitsOf(256), BitsOf(period)), BitsOf(cpuFreq))))

\* The result for the exact value of 256 * period * cpuFreq / 1e9.
ExactClkDivFromPeriod(period, cpuFreq) ==
    splitClkdivBits(DivBy1e9(mulBits(mulBits(BitsOf(256), BitsOf(period)), BitsOf(cpuFreq))))

\* boolToBit(b)
boolToBit(b) == IF b THEN 1 ELSE 0

\* ------------------------------------------------------------------------
\* State-machine configuration (rp2-pio/config.go).
\* ------------------------------------------------------------------------

\* StateMachineConfig{}
ZeroConfig == [ClkDiv |-> {}, ExecCtrl |-> {}, ShiftCtrl |-> {}, PinCtrl |-> {}]

\* clkDiv(whole, frac)
clkDiv(whole, frac) == Field(frac, CLKDIV_FRAC_Pos) \cup Field(whole, CLKDIV_INT_Pos)

\* cfg.SetClkDivIntFrac(whole, frac)
SetClkDivIntFrac(cfg, whole, frac) == [cfg EXCEPT !.ClkDiv = clkDiv(whole, frac)]

\* A SetWrap that writes the whole of ExecCtrl.
wrapReplacesExecCtrl(cfg, wrapTarget, wrap) ==
    [cfg EXCEPT !.ExecCtrl = Field(wrapTarget, EXECCTRL_WRAP_BOTTOM_Pos)
                             \cup Field(wrap, EXECCTRL_WRAP_TOP_Pos)]

\* cfg.SetWrap(wrapTarget, wrap): the two uint8 arguments are shifted in unmasked.
SetWrap(cfg, wrapTarget, wrap) ==
    [cfg EXCEPT !.ExecCtrl =
        (@ \ (EXECCTRL_WRAP_TOP_Msk \cup EXECCTRL_WRAP_BOTTOM_Msk))
        \cup Field(wrapTarget, EXECCTRL_WRAP_BOTTOM_Pos)
        \cup Field(wrap, EXECCTRL_WRAP_TOP_Pos)]

\* cfg.SetInShift(shiftRight, autoPush, pushThreshold)
SetInShift(cfg, shiftRight, autoPush, pushThreshold) ==
    [cfg EXCEPT !.ShiftCtrl =
        (@ \ ({SHIFTCTRL_IN_SHIFTDIR_Pos, SHIFTCTRL_AUTOPUSH_Pos}
              \cup SHIFTCTRL_PUSH_THRESH_Msk))
        \cup Field(boolToBit(shiftRight), SHIFTCTRL_IN_SHIFTDIR_Pos)
        \cup Field(boolToBit(autoPush), SHIFTCTRL_AUTOPUSH_Pos)
        \cup Field(pushThreshold % 32, SHIFTCTRL_PUSH_THRESH_Pos)]

\* cfg.SetOutShift(shiftRight, autoPull, pushThreshold)
SetOutShift(cfg, shiftRight, autoPull, pushThreshold) ==
    [cfg EXCEPT !.ShiftCtrl =
        (@ \ ({SHIFTCTRL_OUT_SHIFTDIR_Pos, SHIFTCTRL_AUTOPULL_Pos}
              \cup SHIFTCTRL_PULL_THRESH_Msk))
        \cup Field(boolToBit(shiftRight), SHIFTCTRL_OUT_SHIFTDIR_Pos)
        \cup Field(boolToBit(autoPull), SHIFTCTRL_AUTOPULL_Pos)
        \cup Field(pushThreshold % 32, SHIFTCTRL_PULL_THRESH_Pos)]

\* DefaultStateMachineConfig()
DefaultStateMachineConfig ==
    SetOutShift(
        SetInShift(
            SetWrap(SetClkDivIntFrac(ZeroConfig, 1, 0), 0, 31),
            TRUE, FALSE, 32),
        TRUE, FALSE, 32)

\* PINCTRL: OUT_BASE 0..4, SET_BASE 5..9, SIDESET_BASE 10..14, IN_BASE
\* 15..19, OUT_COUNT 20..25, SET_COUNT 26..28, SIDESET_COUNT 29..31.
PINCTRL_OUT_BASE_Pos == 0
PINCTRL_SET_BASE_Pos == 5
PINCTRL_SIDESET_BASE_Pos == 10
PINCTRL_IN_BASE_Pos == 15
PINCTRL_OUT_COUNT_Pos == 20
PINCTRL_SET_COUNT_Pos == 26
PINCTRL_SIDESET_COUNT_Pos == 29
PINCTRL_OUT_BASE_Msk == 0 .. 4
PINCTRL_SET_BASE_Msk == 5 .. 9
PINCTRL_SIDESET_BASE_Msk == 10 .. 14
PINCTRL_IN_BASE_Msk == 15 .. 19
PINCTRL_OUT_COUNT_Msk == 20 .. 25
PINCTRL_SET_COUNT_Msk == 26 .. 28
PINCTRL_SIDESET_COUNT_Msk == 29 .. 31

\* EXECCTRL: STATUS_N 0..3, STATUS_SEL 4, OUT_STICKY 17, INLINE_OUT_EN 18,
\* OUT_EN_SEL 19..23, JMP_PIN 24..28, SIDE_PINDIR 29, SIDE_EN 30.
EXECCTRL_STATUS_N_Pos == 0
EXECCTRL_STATUS_SEL_Pos == 4
EXECCTRL_OUT_STICKY_Pos == 17
EXECCTRL_INLINE_OUT_EN_Pos == 18
EXECCTRL_OUT_EN_SEL_Pos == 19
EXECCTRL_JMP_PIN_Pos == 24
EXECCTRL_SIDE_PINDIR_Pos == 29
EXECCTRL_SIDE_EN_Pos == 30
EXECCTRL_STATUS_N_Msk == 0 .. 3
EXECCTRL_STATUS_SEL_Msk == {4}
EXECCTRL_OUT_STICKY_Msk == {17}
EXECCTRL_INLINE_OUT_EN_Msk == {18}
EXECCTRL_OUT_EN_SEL_Msk == 19 .. 23
EXECCTRL_JMP_PIN_Msk == 24 .. 28
EXECCTRL_SIDE_PINDIR_Msk == {29}
EXECCTRL_SIDE_EN_Msk == {30}

\* SHIFTCTRL: FJOIN_TX 30.
SHIFTCTRL_FJOIN_TX_Pos == 30
SHIFTCTRL_FJOIN_TX_Msk == {30}

\* FifoJoinRx, the largest FifoJoin value.
FifoJoinRx == 2

\* The panics of the setters: TRUE when the setter panics on its arguments.
\* checkPinBaseAndCount(base, count)
checkPinBaseAndCount(base, count) == base >= 32 \/ count > 32

\* cfg.SetSidesetParams(bitCount, optional, pindirs), for bitCount <= 5
SetSidesetParams(cfg, bitCount, optional, pindirs) ==
    [cfg EXCEPT
        !.PinCtrl = (@ \ PINCTRL_SIDESET_COUNT_Msk)
                    \cup Field(bitCount, PINCTRL_SIDESET_COUNT_Pos),
        !.ExecCtrl = (@ \ (EXECCTRL_SIDE_EN_Msk \cup EXECCTRL_SIDE_PINDIR_Msk))
                     \cup Field(boolToBit(optional), EXECCTRL_SIDE_EN_Pos)
                     \cup Field(boolToBit(pindirs), EXECCTRL_SIDE_PINDIR_Pos)]

\* cfg.SetSidesetPins(firstPin)
SetSidesetPins(cfg, firstPin) ==
    [cfg EXCEPT !.PinCtrl = (@ \ PINCTRL_SIDESET_BASE_Msk)
                            \cup Field(firstPin, PINCTRL_SIDESET_BASE_Pos)]

\* cfg.SetOutPins(base, count)
SetOutPins(cfg, base, count) ==
    [cfg EXCEPT !.PinCtrl = (@ \ (PINCTRL_OUT_BASE_Msk \cup PINCTRL_OUT_COUNT_Msk))
                            \cup Field(base, PINCTRL_OUT_BASE_Pos)
                            \cup Field(count, PINCTRL_OUT_COUNT_Pos)]

\* cfg.SetSetPins(base, count): count is shifted in unmasked.
SetSetPins(cfg, base, count) ==
    [cfg EXCEPT !.PinCtrl = (@ \ (PINCTRL_SET_BASE_Msk \cup PINCTRL_SET_COUNT_Msk))
                            \cup Field(base, PINCTRL_SET_BASE_Pos)
                            \cup Field(count, PINCTRL_SET_COUNT_Pos)]

\* cfg.SetInPins(base)
SetInPins(cfg, base) ==
    [cfg EXCEPT !.PinCtrl = (@ \ PINCTRL_IN_BASE_Msk) \cup Field(base, PINCTRL_IN_BASE_Pos)]

\* cfg.SetJmpPin(pin)
SetJmpPin(cfg, pin) ==
    [cfg EXCEPT !.ExecCtrl = (@ \ EXECCTRL_JMP_PIN_Msk) \cup Field(pin, EXECCTRL_JMP_PIN_Pos)]

\* cfg.SetOutSpecial(sticky, hasEnablePin, enable): enable is masked to its field.
SetOutSpecial(cfg, sticky, hasEnablePin, enable) ==
    [cfg EXCEPT !.ExecCtrl =
        (@ \ (EXECCTRL_OUT_STICKY_Msk \cup EXECCTRL_INLINE_OUT_EN_Msk \cup EXECCTRL_OUT_EN_SEL_Msk))
        \cup Field(boolToBit(sticky), EXECCTRL_OUT_STICKY_Pos)
        \cup Field(boolToBit(hasEnablePin), EXECCTRL_INLINE_OUT_EN_Pos)
        \cup (Field(enable, EXECCTRL_OUT_EN_SEL_Pos) \cap EXECCTRL_OUT_EN_SEL_Msk)]

\* cfg.SetMovStatus(statusSel, statusN): both are masked to their fields.
SetMovStatus(cfg, statusSel, statusN) ==
    [cfg EXCEPT !.ExecCtrl =
        (@ \ (EXECCTRL_STATUS_SEL_Msk \cup EXECCTRL_STATUS_N_Msk))
        \cup (Field(statusSel, EXECCTRL_STATUS_SEL_Pos) \cap EXECCTRL_STATUS_SEL_Msk)
        \cup (Field(statusN, EXECCTRL_STATUS_N_Pos) \cap EXECCTRL_STATUS_N_Msk)]

\* cfg.SetFIFOJoin(join), for join <= FifoJoinRx
SetFIFOJoin(cfg, join) ==
    [cfg EXCEPT !.ShiftCtrl = (@ \ (SHIFTCTRL_FJOIN_TX_Msk \cup SHIFTCTRL_FJOIN_RX_Msk))
                              \cup Field(join, SHIFTCTRL_FJOIN_TX_Pos)]

\* ------------------------------------------------------------------------
\* Inputs: the programs and arguments the calls are tried with.
\* ------------------------------------------------------------------------

\* A program of n words: n-1 set instructions, each with its own immediate,
\* and a closing jump with condition c, delay/side-set field d and authored
\* target t.
Prog(n, t, c, d) ==
    [i \in 1 .. n |-> IF i = n THEN Jmp(t, c) + d * 256 ELSE EncodeSetX(i)]

\* The programs AddProgram is tried with on its own: lengths 1, 3, 4, 8, 16,
\* 32 and 33; the second is a 3-instruction program whose only jump targets 0,
\* the third one whose jump targets word 31.
Catalog ==
    { Prog(1, 0, 0, 0), Prog(3, 0, 2, 16), Prog(3, 31, 3, 1), Prog(4, 3, 0, 0),
      Prog(8, 7, 5, 3), Prog(16, 15, 4, 0), Prog(32, 0, 7, 31), Prog(33, 32, 0, 0) }

\* origin is an int8: -1 for a relocatable program, else the fixed origin.
Origins == {-1, 0, 13, 30}

\* The programs and origins the whole API is tried with.
ApiCatalog ==
    { Prog(3, 0, 2, 16), Prog(3, 31, 3, 1), Prog(16, 15, 4, 0), Prog(33, 32, 0, 0) }
ApiOrigins == {-1, 0}

\* The arguments of AddProgramAtOffset: programs, origins, offsets (uint8).
OffsetCatalog == { Prog(3, 0, 2, 16), Prog(16, 15, 4, 0) }
OffsetOrigins == {-1, 30}
Offsets == {0, 30, 255}

\* (offset, len) arguments of ClearProgramSection (uint8 each).
Sections ==
    { <<0, 32>>, <<1, 1>>, <<29, 3>>, <<30, 4>>, <<250, 10>> }

\* The arguments of StateMachine.Init: every state machine, two initial
\* program counters, and as cfg the zero value, the default and a
\* configuration with its own divider and wrap.
InitialPCs == {0, 31}
CustomConfig == SetWrap(SetClkDivIntFrac(DefaultStateMachineConfig, 2, 128), 2, 5)
Configs == {ZeroConfig, DefaultStateMachineConfig, CustomConfig}

\* The state machines SetEnabled is called on, and the one whose TX FIFO is
\* written.
EnableSm == {0, 3}

\* The state machine whose pins are set, its configuration before the call
\* (OUT_STICKY set, SET and OUT pins mapped), and the masks tried.
PinSm == {1}
StickyConfig ==
    SetOutSpecial(SetSetPins(SetOutPins(DefaultStateMachineConfig, 3, 2), 5, 5), TRUE, FALSE, 0)
PinMasks == { {}, {0}, {5, 6}, {3, 17, 31}, Bit32 }
ValueMasks == { {0, 17}, Bit32 }

\* The execution contexts that share one PIO block, and the programs and
\* origins they call AddProgram with.
Contexts == {1, 2}
RaceCatalog == { Prog(3, 0, 2, 16), Prog(16, 15, 4, 0), Prog(32, 0, 7, 31), Prog(33, 32, 0, 0) }
RaceOrigins == {-1, 0}
TxSm == {3}

\* The assemblers tried: SidesetBits 0..5.
AsmWidths == 0 .. 5

\* A call of an assembler method, and the calls tried.
MethodCall(m, a, b) == [m |-> m, k |-> 0, ds |-> 0, a |-> a, b |-> b]
MethodCalls ==
    { MethodCall("Jmp", 0, 2), MethodCall("Jmp", 7, 3), MethodCall("Jmp", 5, 4),
      MethodCall("Jmp", 31, 7), MethodCall("Jmp", 3, 0),
      MethodCall("WaitPin", 1, 0), MethodCall("WaitPin", 0, 31),
      MethodCall("WaitGPIO", 1, 5), MethodCall("WaitIRQ", 3, 2),
      MethodCall("In", 0, 1), MethodCall("In", 7, 8),
      MethodCall("Out", 0, 1), MethodCall("Out", 7, 31),
      MethodCall("Push", 0, 1), MethodCall("Push", 1, 0),
      MethodCall("Pull", 1, 1), MethodCall("Pull", 0, 1),
      MethodCall("Mov", 1, 2), MethodCall("Mov", 7, 5),
      MethodCall("MovInvert", 0, 1), MethodCall("MovReverse", 2, 0),
      MethodCall("IRQSet", 0, 0), MethodCall("IRQSet", 1, 3), MethodCall("IRQSet", 0, 7),
      MethodCall("IRQClear", 0, 1),
      MethodCall("Set", 4, 0), MethodCall("Set", 1, 31),
      MethodCall("Nop", 0, 0) }

\* The IRQ flag indices, and every call of an IRQ-addressing method of the
\* assembler and of an IRQ-addressing package-level encoder.
IrqIndices == 0 .. 7
IrqMethodCalls ==
    { MethodCall(m, a, b) : m \in {"IRQSet", "IRQClear"}, a \in {0, 1}, b \in IrqIndices }
    \cup { MethodCall("WaitIRQ", a, b) : a \in 0 .. 3, b \in IrqIndices }
IrqFuncCalls ==
    { MethodCall(m, a, b) : m \in {"EncodeIRQSet", "EncodeIRQClear"}, a \in {0, 1},
                           b \in IrqIndices }
    \cup { MethodCall("EncodeWaitIRQ", a, b) : a \in 0 .. 3, b \in IrqIndices }

\* The arguments of Side and Delay, and of EncodeInstr.
SideValues == {0, 1, 8, 31}
DelayValues == {0, 7, 16, 31}
DelaySidesetValues == {0, 1, 16, 31}
Arg1Values == 0 .. 7
Arg2Values == {0, 1, 7, 31}

\* The arguments the configuration setters are called with: << a, b, c >>,
\* a bool given as 0 or 1 and an unused position as 0.
SetterArgs(op) ==
    CASE op = "SetClkDivIntFrac" -> { << 2, 128, 0 >> }
      [] op = "SetWrap" -> { << 2, 5, 0 >>, << 31, 0, 0 >>, << 0, 32, 0 >> }
      [] op = "SetInShift" -> { << 0, 1, 8 >> }
      [] op = "SetOutShift" -> { << 0, 1, 31 >> }
      [] op = "SetSidesetParams" -> { << 1, 1, 0 >>, << 5, 0, 1 >>, << 6, 0, 0 >> }
      [] op = "SetSidesetPins" -> { << 31, 0, 0 >> }
      [] op = "SetOutPins" -> { << 31, 32, 0 >>, << 0, 33, 0 >> }
      [] op = "SetSetPins" -> { << 5, 5, 0 >>, << 0, 8, 0 >>, << 32, 1, 0 >> }
      [] op = "SetInPins" -> { << 17, 0, 0 >> }
      [] op = "SetJmpPin" -> { << 9, 0, 0 >> }
      [] op = "SetOutSpecial" -> { << 1, 1, 33 >> }
      [] op = "SetMovStatus" -> { << 3, 31, 0 >> }
      [] op = "SetFIFOJoin" -> { << 2, 0, 0 >>, << 3, 0, 0 >> }

\* The frequencies tried, in Hz (256 * cpuFreq + freq stays below 2^31).
\* Periods in nanoseconds and CPU frequencies in Hz for ClkDivFromPeriod.
Periods == {0, 1, 8, 100, 4000, 1000000, 65535000, 131071999, 268435456,
            1000000000, 2147483647}
CpuFreqs == {0, 1, 999, 12000000, 125000000, 133000000, 150000000, 200000000,
             268435456, 268435460, 2147483647}
ClkFreqs == {0, 1, 2, 3, 5, 255, 256, 257, 1000, 65535, 65536, 196606, 4000000, 4000001}

\* ------------------------------------------------------------------------
\* State.
\* ------------------------------------------------------------------------

VARIABLES
    usedSpaceMask,  \* PIO.usedSpaceMask, as the set of its set bits
    instrMem,       \* hw.INSTR_MEM[0..31], the low 16 bits of each word
    live,           \* words holding an instruction of a program loaded and not cleared since
    loaded,         \* spans <<offset, len>> of the programs loaded and still holding a live word
    allocs,         \* the <<offset, len>> of every AddProgram call that returned a nil error, in order
    ncalls,         \* calls made so far
    last,           \* the last call: its arguments, the state before it, its writes and result
    ctrl,           \* hw.CTRL as read back: the SM_ENABLE bits
    smRegs,         \* per state machine: CLKDIV, EXECCTRL, SHIFTCTRL, PINCTRL
    fdebug,         \* hw.FDEBUG: the sticky FIFO flags
    txLevel,        \* per state machine: words waiting in its TX FIFO
    smPC,           \* per state machine: its program counter
    hwlog,          \* the register accesses of the last state-machine call, in order
    smcalls,        \* Init and SetEnabled calls made so far
    lastSm,         \* the last state-machine call and the hardware state before it
    asmSidesetBits, \* AssemblerV0.SidesetBits of the assembler in use
    asmCall,        \* the method call that made the instruction under construction
    asmWord,        \* instructionV0.instr of the instruction under construction
    asmMods,        \* the Side and Delay calls applied to it, each with the word before it
    clkCall,        \* the last clock-divider computation: arguments and result
    config,         \* the StateMachineConfig under construction
    cfgLog,         \* the setters called on it, each with the configuration before the call
    claimedSMMask,  \* PIO.claimedSMMask, as the set of its set bits
    granted,        \* per state machine: the callers told they own it since its last Unclaim
    claimLast,      \* the last claim call: its arguments, the mask before it and its result
    claimCalls,     \* claim calls made so far
    tasks,          \* per execution context: the call it is in, its position and its result
    mutex,          \* the context holding the caller's lock, or 0
    pinLast,        \* the last SetPinsMasked or SetPindirsMasked call and the registers before it
    dmaPc,          \* where the dmaPush or dmaPull call is: idle, contend, setup, transfer, abort, done
                    \* (a loop name followed by Yield: inside gosched() of that loop)
    dmaOp,          \* "dmaPush" or "dmaPull"
    dmaTimeout,     \* deadliner.timeout of the channel
    dmaDeadline,    \* the deadline of the loop the call is in
    dmaNow,         \* time.Now(), in ticks
    dmaBusy,        \* CTRL_TRIG.BUSY of the channel
    dmaAbort,       \* the channel's bit of CHAN_ABORT
    dmaWrites,      \* the register writes of the call, in order
    dmaPrinted,     \* "DMA abort timeout" was printed
    dmaErr,         \* the error returned
    spiPc,          \* where the SPI.Tx call is: idle, top (of the loop), rx, done
    spiW,           \* w, the bytes to send
    spiR,           \* the bytes stored in r so far
    spiTxRemain,    \* txRemain
    spiRxRemain,    \* rxRemain
    spiRetries,     \* retries
    spiStall,       \* stall, in the iteration under way
    spiTxFifo,      \* the TX FIFO of the state machine
    spiRxFifo,      \* the RX FIFO of the state machine
    spiFifoStalled, \* some iteration found the TX FIFO full, or the RX FIFO empty, with bytes outstanding
    spiErr          \* the error returned

allocVars == << usedSpaceMask, instrMem, live, loaded, allocs, ncalls, last >>
smVars == << ctrl, smRegs, fdebug, txLevel, smPC, hwlog, smcalls, lastSm >>
asmVars == << asmSidesetBits, asmCall, asmWord, asmMods >>
clkVars == << clkCall >>
cfgVars == << config, cfgLog >>
claimVars == << claimedSMMask, granted, claimLast, claimCalls >>
raceVars == << tasks, mutex >>
pinVars == << pinLast >>
dmaVars == << dmaPc, dmaOp, dmaTimeout, dmaDeadline, dmaNow, dmaBusy, dmaAbort,
              dmaWrites, dmaPrinted, dmaErr >>
spiVars == << spiPc, spiW, spiR, spiTxRemain, spiRxRemain, spiRetries, spiStall,
              spiTxFifo, spiRxFifo, spiFifoStalled, spiErr >>
xferVars == << dmaVars, spiVars >>
libVars == << claimVars, raceVars, pinVars, xferVars >>
vars == << allocVars, smVars, asmVars, clkVars, cfgVars, libVars >>

NoCall ==
    [ op |-> "none", instrs |-> << >>, origin |-> 0, offset |-> 0, len |-> 0,
      err |-> "nil", preMask |-> {}, preMem |-> [w \in WordIdx |-> 0], writes |-> {} ]

NoAsmCall == [m |-> "none", k |-> 0, ds |-> 0, a |-> 0, b |-> 0]

NoClkCall == [fn |-> "none", x |-> 0, cpuFreq |-> 0, whole |-> 0, frac |-> 0, err |-> "nil"]

\* deadline{}: the zero time, which never expires.
ZeroDeadline == [zero |-> TRUE, t |-> 0]

NoClaimCall == [op |-> "none", index |-> 0, pre |-> {}, ok |-> FALSE, sm |-> 0, err |-> "nil"]

\* An execution context that has made no call yet.
IdleTask ==
    [pc |-> "idle", op |-> "none", locked |-> FALSE, instrs |-> << >>, origin |-> 0, offset |-> 0, index |-> 0, ok |-> FALSE, err |-> "nil", wrote |-> FALSE]

NoPinCall ==
    [ op |-> "none", index |-> 0, dest |-> 0, valueMask |-> {}, pinMask |-> {},
      naive |-> TRUE, prePinCtrl |-> {}, preExecCtrl |-> {} ]

NoSmCall ==
    [ op |-> "none", index |-> 0, initialPC |-> 0, cfg |-> ZeroConfig,
      preCtrl |-> {}, preTx |-> 0, preFdebug |-> {} ]

\* The state after construction: PIO0 = &PIO{hw: rp.PIO0}; the instruction
\* memory and the registers of the block hold zero after reset.
Init ==
    /\ usedSpaceMask = {}
    /\ instrMem = [w \in WordIdx |-> 0]
    /\ live = {}
    /\ loaded = {}
    /\ allocs = << >>
    /\ ncalls = 0
    /\ last = NoCall
    /\ ctrl = {}
    /\ smRegs = [i \in SmIdx |-> ZeroConfig]
    /\ fdebug = {}
    /\ txLevel = [i \in SmIdx |-> 0]
    /\ smPC = [i \in SmIdx |-> 0]
    /\ hwlog = << >>
    /\ smcalls = 0
    /\ lastSm = NoSmCall
    /\ asmSidesetBits = 0
    /\ asmCall = NoAsmCall
    /\ asmWord = 0
    /\ asmMods = << >>
    /\ clkCall = NoClkCall
    /\ config = ZeroConfig
    /\ cfgLog = << >>
    /\ claimedSMMask = {}
    /\ granted = [i \in SmIdx |-> 0]
    /\ claimLast = NoClaimCall
    /\ claimCalls = 0
    /\ tasks = [c \in Contexts |-> IdleTask]
    /\ mutex = 0
    /\ pinLast = NoPinCall
    /\ dmaPc = "idle"
    /\ dmaOp = "none"
    /\ dmaTimeout = 0
    /\ dmaDeadline = ZeroDeadline
    /\ dmaNow = 0
    /\ dmaBusy = FALSE
    /\ dmaAbort = FALSE
    /\ dmaWrites = << >>
    /\ dmaPrinted = FALSE
    /\ dmaErr = "nil"
    /\ spiPc = "idle"
    /\ spiW = << >>
    /\ spiR = << >>
    /\ spiTxRemain = 0
    /\ spiRxRemain = 0
    /\ spiRetries = 0
    /\ spiStall = FALSE
    /\ spiTxFifo = << >>
    /\ spiRxFifo = << >>
    /\ spiFifoStalled = FALSE
    /\ spiErr = "nil"

\* ------------------------------------------------------------------------
\* The allocator (rp2-pio/pio.go).
\* ------------------------------------------------------------------------

\* A bound check that lets every fixed origin through.
originNeverPastEnd(origin, programLen) == FALSE

\* uint32(origin) > 32-programLen, for origin >= 0.  The right side is a
\* uint32: for programLen > 32 it wraps to more than 2^31, above any origin.
OriginPastEnd(origin, programLen) ==
    IF programLen <= MemWords THEN origin > MemWords - programLen ELSE FALSE

\* A scan that returns the lowest free offset of 0..i instead of the highest.
scanUp(mask, programMask, i) ==
    LET fits == {o \in 0 .. i : mask \cap Shl32(programMask, o) = {}}
    IN IF fits = {} THEN -1 ELSE CHOOSE o \in fits : \A q \in fits : o <= q

\* The loop "for i := int8(32 - programLen); i >= 0; i--" of findOffsetForProgram,
\* from i downwards.
RECURSIVE scanDown(_, _, _)
scanDown(mask, programMask, i) ==
    IF i < 0 THEN -1
    ELSE IF mask \cap Shl32(programMask, i) = {} THEN i
    ELSE scanDown(mask, programMask, i - 1)

\* PIO.findOffsetForProgram: the offset to load at, or -1.
findOffsetForProgram(mask, instructions, origin) ==
    LET programLen == Len(instructions)
        programMask == ProgramMask(programLen)
    IN IF origin >= 0
       THEN IF OriginPastEnd(origin, programLen) THEN -1
            ELSE IF mask \cap Shl32(programMask, origin) # {} THEN -1
            ELSE origin
       ELSE scanDown(mask, programMask, ToInt8(MemWords - programLen))

\* PIO.CanAddProgramAtOffset
CanAddProgramAtOffset(mask, instructions, origin, offset) ==
    IF origin >= 0 /\ origin # ToInt8(offset) THEN FALSE
    ELSE mask \cap Shl32(ProgramMask(Len(instructions)), offset) = {}

\* A load that stores every instruction as authored.
storeUnrelocated(instr, offset) == instr

\* The word AddProgramAtOffset stores for instr: a jump gets the offset added
\* to the whole 16-bit word, any other instruction is stored as it is.
Relocate(instr, offset) ==
    IF INSTR_BITS_JMP = Major(instr) THEN U16(instr + offset) ELSE instr

\* PIO.writeInstructionMemory(offset, value): the register written is the one
\* offset words after INSTR_MEM0.  For an offset of 32 or more that register
\* lies past INSTR_MEM31 (the registers of the state machines follow it): the
\* instruction memory keeps its content, and the write is kept in the call's
\* record of writes.
writeInstructionMemory(mem, offset, value) ==
    IF offset \in WordIdx THEN [mem EXCEPT ![offset] = value] ELSE mem

\* The loop of AddProgramAtOffset, "for i := uint8(0); i < programLen; i++",
\* from i on: the index offset+i is a uint8 sum.
RECURSIVE loadLoop(_, _, _, _)
loadLoop(mem, instructions, offset, i) ==
    IF i >= U8(Len(instructions)) THEN mem
    ELSE loadLoop(writeInstructionMemory(mem, U8(offset + i),
                                         Relocate(instructions[i + 1], offset)),
                  instructions, offset, i + 1)

\* The register writes of that loop, as <<index, value>> pairs.
loadWrites(instructions, offset) ==
    { << U8(offset + i), Relocate(instructions[i + 1], offset) >> :
        i \in 0 .. (U8(Len(instructions)) - 1) }

\* A load that leaves usedSpaceMask as it was.
markNothing(mask, instructions, offset) == mask

\* usedSpaceMask after AddProgramAtOffset marks the space:
\* usedSpaceMask |= uint32((1 << programLen) - 1) << uint32(offset)
markUsed(mask, instructions, offset) ==
    mask \cup Shl32(ProgramMask(U8(Len(instructions))), offset)

Indices(writes) == {wr[1] : wr \in writes}

\* The effect of PIO.AddProgramAtOffset on the block, and its result.
atOffsetResult(mask, mem, instructions, origin, offset) ==
    IF ~CanAddProgramAtOffset(mask, instructions, origin, offset)
    THEN [err |-> "ErrNoSpaceAtOffset", mask |-> mask, mem |-> mem, writes |-> {}]
    ELSE LET writes == loadWrites(instructions, offset)
         IN [err |-> "nil",
             mask |-> markUsed(mask, instructions, offset),
             mem |-> loadLoop(mem, instructions, offset, 0),
             writes |-> writes]

\* Bookkeeping of the words that hold live program content.
liveAfter(r) == live \cup (Indices(r.writes) \cap WordIdx)
loadedAfter(r, instructions, offset) ==
    IF r.err = "nil" /\ Indices(r.writes) \cap WordIdx # {}
    THEN {s \in loaded : \E w \in WordIdx \cap (s[1] .. (s[1] + s[2] - 1)) :
                            w \in live /\ w \notin Indices(r.writes)}
         \cup {<<offset, Len(instructions)>>}
    ELSE loaded

\* PIO.AddProgramAtOffset(instructions, origin, offset)
AddProgramAtOffset(instructions, origin, offset) ==
    LET r == atOffsetResult(usedSpaceMask, instrMem, instructions, origin, offset)
    IN /\ ncalls < MaxCalls
       /\ ncalls' = ncalls + 1
       /\ usedSpaceMask' = r.mask
       /\ instrMem' = r.mem
       /\ live' = liveAfter(r)
       /\ loaded' = loadedAfter(r, instructions, offset)
       /\ allocs' = allocs
       /\ last' = [ op |-> "AddProgramAtOffset", instrs |-> instructions,
                    origin |-> origin, offset |-> offset, len |-> Len(instructions),
                    err |-> r.err, preMask |-> usedSpaceMask, preMem |-> instrMem,
                    writes |-> r.writes ]
       /\ UNCHANGED << smVars, asmVars, clkVars, cfgVars, libVars >>

\* PIO.AddProgram(instructions, origin): the error of AddProgramAtOffset is
\* dropped, the offset found is returned.
AddProgram(instructions, origin) ==
    LET maybeOffset == findOffsetForProgram(usedSpaceMask, instructions, origin)
        offset == U8(maybeOffset)
        r == IF maybeOffset < 0
             THEN [err |-> "ErrOutOfProgramSpace", mask |-> usedSpaceMask,
                   mem |-> instrMem, writes |-> {}]
             ELSE atOffsetResult(usedSpaceMask, instrMem, instructions, origin, offset)
        err == IF maybeOffset < 0 THEN "ErrOutOfProgramSpace" ELSE "nil"
    IN /\ ncalls < MaxCalls
       /\ ncalls' = ncalls + 1
       /\ usedSpaceMask' = r.mask
       /\ instrMem' = r.mem
       /\ live' = liveAfter(r)
       /\ loaded' = loadedAfter(r, instructions, offset)
       /\ allocs' = IF err = "nil" THEN Append(allocs, <<offset, Len(instructions)>>)
                    ELSE allocs
       /\ last' = [ op |-> "AddProgram", instrs |-> instructions,
                    origin |-> origin, offset |-> IF err = "nil" THEN offset ELSE 0,
                    len |-> Len(instructions),
                    err |-> err, preMask |-> usedSpaceMask, preMem |-> instrMem,
                    writes |-> r.writes ]
       /\ UNCHANGED << smVars, asmVars, clkVars, cfgVars, libVars >>

\* The word ClearProgramSection stores in every word of the section.
trapWord(offset, i) == Jmp(offset, JmpAlways)

\* The loop of ClearProgramSection, "for i := offset; i < offset+len; i++", from
\* i on; end is the uint8 sum offset+len.
RECURSIVE clearLoop(_, _, _, _)
clearLoop(mem, offset, end, i) ==
    IF i >= end THEN mem
    ELSE clearLoop([mem EXCEPT ![i] = trapWord(offset, i)], offset, end, i + 1)

\* The words that loop visits.
sectionWords(offset, len) == {i \in 0 .. 255 : offset <= i /\ i < U8(offset + len)}

\* A clearing that wipes the whole of usedSpaceMask.
clearEverything(mask, offset, len) == {}

\* usedSpaceMask after ClearProgramSection releases the section:
\* usedSpaceMask &^= uint32((1<<len)-1) << offset
clearUsed(mask, offset, len) == mask \ Shl32(ProgramMask(len), offset)

\* PIO.ClearProgramSection(offset, len)
ClearProgramSection(offset, len) ==
    LET panics == U8(offset + len) > MemWords
        writes == IF panics THEN {}
                  ELSE {<<i, trapWord(offset, i)>> : i \in sectionWords(offset, len)}
        mask == IF panics THEN usedSpaceMask
                ELSE clearUsed(usedSpaceMask, offset, len)
    IN /\ ncalls < MaxCalls
       /\ ncalls' = ncalls + 1
       /\ usedSpaceMask' = mask
       /\ instrMem' = IF panics THEN instrMem
                      ELSE clearLoop(instrMem, offset, U8(offset + len), offset)
       /\ live' = live \ Indices(writes)
       /\ loaded' = {s \in loaded : \E w \in WordIdx \cap (s[1] .. (s[1] + s[2] - 1)) :
                                       w \in live'}
       /\ allocs' = allocs
       /\ last' = [ op |-> "ClearProgramSection", instrs |-> << >>,
                    origin |-> 0, offset |-> offset, len |-> len,
                    err |-> IF panics THEN "panic" ELSE "nil",
                    preMask |-> usedSpaceMask, preMem |-> instrMem,
                    writes |-> writes ]
       /\ UNCHANGED << smVars, asmVars, clkVars, cfgVars, libVars >>

\* ------------------------------------------------------------------------
\* The older package (rp2040-pio/pio.go).  Its findOffsetForProgram,
\* CanAddProgramAtOffset and AddProgramAtOffset read as those of rp2-pio.
\* ------------------------------------------------------------------------

\* PIO.AddProgram of rp2040-pio: AddProgramAtOffset is called with uint8(offset),
\* the named result, which is still 0 there; uint8(maybeOffset) is returned.
LegacyAddProgram(instructions, origin) ==
    LET maybeOffset == findOffsetForProgram(usedSpaceMask, instructions, origin)
        offset == 0
        r == IF maybeOffset < 0
             THEN [err |-> "ErrOutOfProgramSpace", mask |-> usedSpaceMask,
                   mem |-> instrMem, writes |-> {}]
             ELSE atOffsetResult(usedSpaceMask, instrMem, instructions, origin, offset)
        err == IF maybeOffset < 0 THEN "ErrOutOfProgramSpace" ELSE "nil"
    IN /\ ncalls < MaxCalls
       /\ ncalls' = ncalls + 1
       /\ usedSpaceMask' = r.mask
       /\ instrMem' = r.mem
       /\ live' = liveAfter(r)
       /\ loaded' = loadedAfter(r, instructions, offset)
       /\ allocs' = IF err = "nil"
                    THEN Append(allocs, <<U8(maybeOffset), Len(instructions)>>)
                    ELSE allocs
       /\ last' = [ op |-> "AddProgram", instrs |-> instructions,
                    origin |-> origin,
                    offset |-> IF err = "nil" THEN U8(maybeOffset) ELSE 0,
                    len |-> Len(instructions),
                    err |-> err, preMask |-> usedSpaceMask, preMem |-> instrMem,
                    writes |-> r.writes ]
       /\ UNCHANGED << smVars, asmVars, clkVars, cfgVars, libVars >>

\* ------------------------------------------------------------------------
\* State machines (rp2-pio/statemachine.go).  The hardware of the block is
\* the record [ctrl, regs, fdebug, tx, pc, log]; each operation below maps
\* the hardware before the call to the hardware after it and appends its
\* register accesses to log.
\* ------------------------------------------------------------------------

\* One register access: the register, the state machine it belongs to (-1
\* for a register of the whole block), the operation, its operand bits and,
\* for ReplaceBits, the bits replaced.
Access(reg, index, op, bits) ==
    [reg |-> reg, sm |-> index, op |-> op, bits |-> bits, mask |-> {}]
ReplaceAccess(reg, index, bits, mask) ==
    [reg |-> reg, sm |-> index, op |-> "ReplaceBits", bits |-> bits, mask |-> mask]

\* The hardware state held in the variables.
hwNow ==
    [ctrl |-> ctrl, regs |-> smRegs, fdebug |-> fdebug, tx |-> txLevel,
     pc |-> smPC, log |-> << >>]

\* sm.SetEnabled(enabled): CTRL.ReplaceBits(boolToBit(enabled), 0x1, sm.index)
SetEnabled(h, index, enabled) ==
    [h EXCEPT
        !.ctrl = (@ \ Field(1, CTRL_SM_ENABLE_Pos + index))
                 \cup Field(boolToBit(enabled), CTRL_SM_ENABLE_Pos + index),
        !.log = Append(@, ReplaceAccess("CTRL", -1,
                                        Field(boolToBit(enabled), CTRL_SM_ENABLE_Pos + index),
                                        Field(1, CTRL_SM_ENABLE_Pos + index)))]

\* sm.SetConfig(cfg): CLKDIV, EXECCTRL, SHIFTCTRL and PINCTRL are set, in
\* that order.
SetConfig(h, index, cfg) ==
    [h EXCEPT
        !.regs[index] = cfg,
        !.log = @ \o << Access("CLKDIV", index, "Set", cfg.ClkDiv),
                        Access("EXECCTRL", index, "Set", cfg.ExecCtrl),
                        Access("SHIFTCTRL", index, "Set", cfg.ShiftCtrl),
                        Access("PINCTRL", index, "Set", cfg.PinCtrl) >>]

\* xorBits(&hw.SHIFTCTRL, bits): a write to the XOR alias of the register.
\* The FIFOs of the state machine are flushed when FJOIN_RX changes.
xorBits(h, index, bits) ==
    [h EXCEPT
        !.regs[index].ShiftCtrl = (@ \ bits) \cup (bits \ @),
        !.tx[index] = IF bits \cap SHIFTCTRL_FJOIN_RX_Msk # {} THEN 0 ELSE @,
        !.log = Append(@, Access("SHIFTCTRL", index, "Xor", bits))]

\* sm.ClearFIFOs(): FJOIN_RX is toggled twice.
ClearFIFOs(h, index) ==
    xorBits(xorBits(h, index, SHIFTCTRL_FJOIN_RX_Msk), index, SHIFTCTRL_FJOIN_RX_Msk)

\* fdebugMask of Init: the four sticky flags of state machine 0.
fdebugMask ==
    {FDEBUG_TXOVER_Pos, FDEBUG_RXUNDER_Pos, FDEBUG_TXSTALL_Pos, FDEBUG_RXSTALL_Pos}

\* hw.FDEBUG.Set(fdebugMask << sm.index): the flags written as 1 are cleared.
ClearDebug(h, index) ==
    [h EXCEPT
        !.fdebug = @ \ Shl32(fdebugMask, index),
        !.log = Append(@, Access("FDEBUG", -1, "Set", Shl32(fdebugMask, index)))]

\* sm.Restart(): CTRL.SetBits(1 << (SM_RESTART_Pos + sm.index)); the bit is a
\* strobe and reads back as 0.
Restart(h, index) ==
    [h EXCEPT
        !.log = Append(@, Access("CTRL", -1, "SetBits",
                                 Field(1, CTRL_SM_RESTART_Pos + index)))]

\* sm.ClkDivRestart(): CTRL.SetBits(1 << (CLKDIV_RESTART_Pos + sm.index))
ClkDivRestart(h, index) ==
    [h EXCEPT
        !.log = Append(@, Access("CTRL", -1, "SetBits",
                                 Field(1, CTRL_CLKDIV_RESTART_Pos + index)))]

\* sm.Exec(instr): INSTR.Set(uint32(instr)); the state machine executes the
\* word at once, and an unconditional jump moves its program counter.
Exec(h, index, instr) ==
    [h EXCEPT
        !.pc[index] = IF IsJmp(instr) /\ (instr \div 32) % 8 = JmpAlways
                      THEN AddrField(instr) ELSE @,
        !.log = Append(@, Access("INSTR", index, "Set", BitsOf(instr)))]

\* EncodeSet(dest, value): encodeInstrAndSrcDest(_INSTR_BITS_SET, dest, value)
EncodeSet(dest, value) == instrArgs(INSTR_BITS_SET, dest % 8, value)

\* bits.TrailingZeros32(x), and x & (x - 1) for x # 0: x - 1 clears the
\* lowest set bit of x and sets every bit below it.
TrailingZeros32(S) == IF S = {} THEN 32 ELSE CHOOSE b \in S : \A q \in S : b <= q
Dec32(S) == (S \ {TrailingZeros32(S)}) \cup (0 .. (TrailingZeros32(S) - 1))

\* One turn of either loop of setPinExec for pin i: PINCTRL is set to
\* SET_COUNT = 1, SET_BASE = i and "set dest, bit i of valueMask" is executed.
setOnePin(h, index, dest, valueMask, i) ==
    LET pinctrl == Field(1, PINCTRL_SET_COUNT_Pos) \cup Field(i, PINCTRL_SET_BASE_Pos)
        h1 == [h EXCEPT !.regs[index].PinCtrl = pinctrl,
                        !.log = Append(@, Access("PINCTRL", index, "Set", pinctrl))]
    IN Exec(h1, index, EncodeSet(dest, IF i \in valueMask THEN 1 ELSE 0))

\* A scan over the pins from bit 31 down to bit 0.
RECURSIVE descendingLoop(_, _, _, _, _, _)
descendingLoop(h, index, dest, valueMask, pinMask, i) ==
    IF i >= 32 THEN h
    ELSE IF (31 - i) \notin pinMask
    THEN descendingLoop(h, index, dest, valueMask, pinMask, i + 1)
    ELSE descendingLoop(setOnePin(h, index, dest, valueMask, 31 - i),
                        index, dest, valueMask, pinMask, i + 1)

\* The linear scan: for i := uint8(0); i < 32; i++ { if pinMask&(1<<i) == 0 { continue } ... }
RECURSIVE naiveLoop(_, _, _, _, _, _)
naiveLoop(h, index, dest, valueMask, pinMask, i) ==
    IF i >= 32 THEN h
    ELSE IF i \notin pinMask
    THEN naiveLoop(h, index, dest, valueMask, pinMask, i + 1)
    ELSE naiveLoop(setOnePin(h, index, dest, valueMask, i),
                   index, dest, valueMask, pinMask, i + 1)

\* The trailing-zero extraction: for pinMask != 0 { base := TrailingZeros32(pinMask);
\* ...; pinMask &= pinMask - 1 }
RECURSIVE trailingZeroLoop(_, _, _, _, _)
trailingZeroLoop(h, index, dest, valueMask, pinMask) ==
    IF pinMask = {} THEN h
    ELSE trailingZeroLoop(setOnePin(h, index, dest, valueMask, TrailingZeros32(pinMask)),
                          index, dest, valueMask, pinMask \cap Dec32(pinMask))

\* A return that puts back PINCTRL and leaves EXECCTRL as the call made it.
restorePinctrlOnly(h, index, pinctrlSaved, execctrlSaved) ==
    [h EXCEPT !.regs[index].PinCtrl = pinctrlSaved,
              !.log = Append(@, Access("PINCTRL", index, "Set", pinctrlSaved))]

\* hw.PINCTRL.Set(pinctrlSaved); hw.EXECCTRL.Set(execctrlSaved)
restoreSaved(h, index, pinctrlSaved, execctrlSaved) ==
    [h EXCEPT !.regs[index].PinCtrl = pinctrlSaved,
              !.regs[index].ExecCtrl = execctrlSaved,
              !.log = @ \o << Access("PINCTRL", index, "Set", pinctrlSaved),
                              Access("EXECCTRL", index, "Set", execctrlSaved) >>]

\* sm.setPinExec(dest, valueMask, pinMask), with the loop the constant
\* naive selects.
setPinExec(h, index, dest, valueMask, pinMask, naive) ==
    LET pinctrlSaved == h.regs[index].PinCtrl
        execctrlSaved == h.regs[index].ExecCtrl
        h1 == [h EXCEPT !.log = @ \o << Access("PINCTRL", index, "Get", {}),
                                         Access("EXECCTRL", index, "Get", {}) >>]
        h2 == [h1 EXCEPT !.regs[index].ExecCtrl = @ \ Field(1, EXECCTRL_OUT_STICKY_Pos),
                         !.log = Append(@, Access("EXECCTRL", index, "ClearBits",
                                                  Field(1, EXECCTRL_OUT_STICKY_Pos)))]
        h3 == IF naive
              THEN naiveLoop(h2, index, dest, valueMask, pinMask, 0)
              ELSE trailingZeroLoop(h2, index, dest, valueMask, pinMask)
    IN restoreSaved(h3, index, pinctrlSaved, execctrlSaved)

\* StateMachine.Init with the jump executed before the configuration is written.
initJumpFirst(h, index, initialPC, cfg) ==
    LET h0 == Exec(h, index, EncodeJmp(initialPC, JmpAlways))
        h1 == SetEnabled(h0, index, FALSE)
        h2 == IF cfg = ZeroConfig
              THEN SetConfig(h1, index, DefaultStateMachineConfig)
              ELSE SetConfig(h1, index, cfg)
        h3 == ClearFIFOs(h2, index)
        h4 == ClearDebug(h3, index)
        h5 == Restart(h4, index)
    IN ClkDivRestart(h5, index)

\* The body of StateMachine.Init(initialPC, cfg), statement by statement.
initSequence(h, index, initialPC, cfg) ==
    LET h1 == SetEnabled(h, index, FALSE)
        h2 == IF cfg = ZeroConfig
              THEN SetConfig(h1, index, DefaultStateMachineConfig)
              ELSE SetConfig(h1, index, cfg)
        h3 == ClearFIFOs(h2, index)
        h4 == ClearDebug(h3, index)
        h5 == Restart(h4, index)
        h6 == ClkDivRestart(h5, index)
    IN Exec(h6, index, EncodeJmp(initialPC, JmpAlways))

\* The variables after a call that left the hardware as h.
hwBecomes(h) ==
    /\ ctrl' = h.ctrl
    /\ smRegs' = h.regs
    /\ fdebug' = h.fdebug
    /\ txLevel' = h.tx
    /\ smPC' = h.pc
    /\ hwlog' = h.log

SmCallRecord(op, index, initialPC, cfg) ==
    [ op |-> op, index |-> index, initialPC |-> initialPC, cfg |-> cfg,
      preCtrl |-> ctrl, preTx |-> txLevel[index], preFdebug |-> fdebug ]

\* StateMachine.Init(initialPC, cfg) on state machine index.
StateMachineInit(index, initialPC, cfg) ==
    /\ smcalls < MaxSmCalls
    /\ smcalls' = smcalls + 1
    /\ hwBecomes(initSequence(hwNow, index, initialPC, cfg))
    /\ lastSm' = SmCallRecord("Init", index, initialPC, cfg)
    /\ UNCHANGED << allocVars, asmVars, clkVars, cfgVars, libVars >>

\* StateMachine.SetEnabled(enabled) on state machine index.
StateMachineSetEnabled(index, enabled) ==
    /\ smcalls < MaxSmCalls
    /\ smcalls' = smcalls + 1
    /\ hwBecomes(SetEnabled(hwNow, index, enabled))
    /\ lastSm' = SmCallRecord("SetEnabled", index, 0, ZeroConfig)
    /\ UNCHANGED << allocVars, asmVars, clkVars, cfgVars, libVars >>

\* StateMachine.TxPut(data) on state machine index: a word enters the TX
\* FIFO; if the FIFO is full its contents are not affected and the sticky
\* TXOVER flag of the state machine is set.
TxPut(index) ==
    /\ txLevel' = IF txLevel[index] < FifoDepth
                  THEN [txLevel EXCEPT ![index] = @ + 1] ELSE txLevel
    /\ fdebug' = IF txLevel[index] < FifoDepth THEN fdebug
                 ELSE fdebug \cup {FDEBUG_TXOVER_Pos + index}
    /\ hwlog' = << Access("TXF", index, "Set", {}) >>
    /\ lastSm' = SmCallRecord("TxPut", index, 0, ZeroConfig)
    /\ UNCHANGED << ctrl, smRegs, smPC, smcalls >>
    /\ UNCHANGED << allocVars, asmVars, clkVars, cfgVars, libVars >>

\* SrcDestPins and SrcDestPinDirs, the destinations of the set instruction.
SrcDestPins == 0
SrcDestPinDirs == 4

PinCallRecord(op, index, dest, valueMask, pinMask, naive) ==
    [ op |-> op, index |-> index, dest |-> dest, valueMask |-> valueMask,
      pinMask |-> pinMask, naive |-> naive,
      prePinCtrl |-> smRegs[index].PinCtrl, preExecCtrl |-> smRegs[index].ExecCtrl ]

\* StateMachine.SetPinsMasked(valueMask, pinMask) on state machine index,
\* built with the constant naive as given.
SetPinsMasked(index, valueMask, pinMask, naive) ==
    /\ smcalls < MaxSmCalls
    /\ smcalls' = smcalls + 1
    /\ hwBecomes(setPinExec(hwNow, index, SrcDestPins, valueMask, pinMask, naive))
    /\ lastSm' = SmCallRecord("SetPinsMasked", index, 0, ZeroConfig)
    /\ pinLast' = PinCallRecord("SetPinsMasked", index, SrcDestPins, valueMask, pinMask, naive)
    /\ UNCHANGED << allocVars, asmVars, clkVars, cfgVars, claimVars, raceVars, xferVars >>

\* StateMachine.SetPindirsMasked(dirMask, pinMask) on state machine index.
SetPindirsMasked(index, dirMask, pinMask, naive) ==
    /\ smcalls < MaxSmCalls
    /\ smcalls' = smcalls + 1
    /\ hwBecomes(setPinExec(hwNow, index, SrcDestPinDirs, dirMask, pinMask, naive))
    /\ lastSm' = SmCallRecord("SetPindirsMasked", index, 0, ZeroConfig)
    /\ pinLast' = PinCallRecord("SetPindirsMasked", index, SrcDestPinDirs, dirMask, pinMask, naive)
    /\ UNCHANGED << allocVars, asmVars, clkVars, cfgVars, claimVars, raceVars, xferVars >>

\* ------------------------------------------------------------------------
\* DMA transfers (rp2-pio/piolib/dma.go) and their deadlines.
\* ------------------------------------------------------------------------

\* The deadliner settings tried: the zero value and two timeouts.
DmaTimeouts == {0, 1, 2}

\* deadliner.newDeadline() at time now:
\* var t time.Time; if ch.timeout != 0 { t = time.Now().Add(time.Duration(1 << ch.timeout)) }
newDeadline(timeout, now) ==
    IF timeout # 0 THEN [zero |-> FALSE, t |-> now + 2 ^ timeout] ELSE ZeroDeadline

\* A deadline that is set whatever the timeout is.
newDeadlineAlwaysSet(timeout, now) == [zero |-> FALSE, t |-> now + 2 ^ timeout]

\* deadline.expired() at time now:
\* if dl.t.IsZero() { return false }; return time.Since(dl.t) > 0
expired(dl, now) == IF dl.zero THEN FALSE ELSE now - dl.t > 0

\* A register write of the transfer.
DmaWrite(reg, op, val) == [reg |-> reg, op |-> op, val |-> val]

\* cc := ch.CurrentConfig() with the setters dmaPush and dmaPull apply, as
\* the flags they set.
transferConfig(op) ==
    IF op = "dmaPush" THEN {"INCR_READ", "EN"} ELSE {"INCR_WRITE", "EN"}

\* From hw.CTRL_TRIG.ClearBits(EN) to hw.CTRL_TRIG.Set(cc.CTRL)
startWrites(op) ==
    << DmaWrite("CTRL_TRIG", "ClearBits", {"EN"}),
       DmaWrite("READ_ADDR", "Set", {"srcPtr"}),
       DmaWrite("WRITE_ADDR", "Set", {"dstPtr"}),
       DmaWrite("TRANS_COUNT", "Set", {"len"}),
       DmaWrite("CTRL_TRIG", "Set", transferConfig(op)) >>

\* A timeout that returns without touching CHAN_ABORT.
abortSkipped(writes) == writes

\* dmaChannel.abort(), its write: rp.DMA.CHAN_ABORT.Set(chMask)
abortWrite(writes) == Append(writes, DmaWrite("CHAN_ABORT", "Set", {"chMask"}))

\* After the loop of dmaPush: hw.CTRL_TRIG.ClearBits(EN); dmaPull has no
\* such write.
finishWrites(op, writes) ==
    IF op = "dmaPush"
    THEN Append(writes, DmaWrite("CTRL_TRIG", "ClearBits", {"EN"}))
    ELSE writes

\* gosched() in the polling loop named by dmaPc: the goroutine yields.
DmaYield == dmaPc' = dmaPc \o "Yield"

\* dmaPush(ch, dst, src, dreq) or dmaPull(ch, dst, src, dreq) is called on a
\* channel whose deadliner has the given timeout and whose hardware is busy
\* or not: deadline := ch.dl.newDeadline()
DmaCall(op, timeout, busy) ==
    /\ dmaPc = "idle"
    /\ dmaPc' = "contend"
    /\ dmaOp' = op
    /\ dmaTimeout' = timeout
    /\ dmaBusy' = busy
    /\ dmaDeadline' = newDeadline(timeout, dmaNow)
    /\ UNCHANGED << dmaNow, dmaAbort, dmaWrites, dmaPrinted, dmaErr >>
    /\ UNCHANGED << allocVars, smVars, asmVars, clkVars, cfgVars, claimVars, raceVars, pinVars,
                    spiVars >>

\* One turn of the first loop:
\* for ch.busy() { if deadline.expired() { return errContentionTimeout }; gosched() }
DmaContend ==
    /\ dmaPc = "contend"
    /\ IF ~dmaBusy
       THEN /\ dmaPc' = "setup"
            /\ UNCHANGED dmaErr
       ELSE IF expired(dmaDeadline, dmaNow)
       THEN /\ dmaPc' = "done"
            /\ dmaErr' = "contention timeout"
       ELSE /\ DmaYield
            /\ UNCHANGED dmaErr
    /\ UNCHANGED << dmaOp, dmaTimeout, dmaDeadline, dmaNow, dmaBusy, dmaAbort,
                    dmaWrites, dmaPrinted >>
    /\ UNCHANGED << allocVars, smVars, asmVars, clkVars, cfgVars, claimVars, raceVars, pinVars,
                    spiVars >>

\* The registers are written and the transfer begins:
\* hw.CTRL_TRIG.Set(cc.CTRL); deadline = ch.dl.newDeadline()
DmaStart ==
    /\ dmaPc = "setup"
    /\ dmaPc' = "transfer"
    /\ dmaWrites' = dmaWrites \o startWrites(dmaOp)
    /\ dmaBusy' = TRUE
    /\ dmaDeadline' = newDeadline(dmaTimeout, dmaNow)
    /\ UNCHANGED << dmaOp, dmaTimeout, dmaNow, dmaAbort, dmaPrinted, dmaErr >>
    /\ UNCHANGED << allocVars, smVars, asmVars, clkVars, cfgVars, claimVars, raceVars, pinVars,
                    spiVars >>

\* One turn of the second loop:
\* for ch.busy() { if deadline.expired() { ch.abort(); return errTimeout }; gosched() }
\* On expiry abort() writes CHAN_ABORT and takes its own deadline.
DmaTransfer ==
    /\ dmaPc = "transfer"
    /\ IF ~dmaBusy
       THEN /\ dmaPc' = "done"
            /\ dmaErr' = "nil"
            /\ dmaWrites' = finishWrites(dmaOp, dmaWrites)
            /\ UNCHANGED << dmaAbort, dmaDeadline >>
       ELSE IF expired(dmaDeadline, dmaNow)
       THEN /\ dmaPc' = "abort"
            /\ dmaWrites' = abortWrite(dmaWrites)
            /\ dmaAbort' = TRUE
            /\ dmaDeadline' = newDeadline(dmaTimeout, dmaNow)
            /\ UNCHANGED dmaErr
       ELSE /\ DmaYield
            /\ UNCHANGED << dmaErr, dmaWrites, dmaAbort, dmaDeadline >>
    /\ UNCHANGED << dmaOp, dmaTimeout, dmaNow, dmaBusy, dmaPrinted >>
    /\ UNCHANGED << allocVars, smVars, asmVars, clkVars, cfgVars, claimVars, raceVars, pinVars,
                    spiVars >>

\* One turn of the loop of abort(), then the return of errTimeout:
\* for rp.DMA.CHAN_ABORT.Get()&chMask != 0 {
\*     if deadline.expired() { println("DMA abort timeout"); break }; gosched() }
DmaAbortPoll ==
    /\ dmaPc = "abort"
    /\ IF ~dmaAbort
       THEN /\ dmaPc' = "done"
            /\ dmaErr' = "timeout"
            /\ UNCHANGED dmaPrinted
       ELSE IF expired(dmaDeadline, dmaNow)
       THEN /\ dmaPc' = "done"
            /\ dmaErr' = "timeout"
            /\ dmaPrinted' = TRUE
       ELSE /\ DmaYield
            /\ UNCHANGED << dmaErr, dmaPrinted >>
    /\ UNCHANGED << dmaOp, dmaTimeout, dmaDeadline, dmaNow, dmaBusy, dmaAbort, dmaWrites >>
    /\ UNCHANGED << allocVars, smVars, asmVars, clkVars, cfgVars, claimVars, raceVars, pinVars,
                    spiVars >>

\* gosched() returns: the goroutine runs again and the loop tests its
\* condition once more.
DmaResume ==
    /\ \E loop \in {"contend", "transfer", "abort"} :
          dmaPc = loop \o "Yield" /\ dmaPc' = loop
    /\ UNCHANGED << dmaOp, dmaTimeout, dmaDeadline, dmaNow, dmaBusy, dmaAbort,
                    dmaWrites, dmaPrinted, dmaErr >>
    /\ UNCHANGED << allocVars, smVars, asmVars, clkVars, cfgVars, claimVars, raceVars, pinVars,
                    spiVars >>

\* The positions of a call inside one of its polling loops.
DmaWaiting == {"contend", "transfer", "abort", "contendYield", "transferYield", "abortYield"}

\* The hardware completes the transfer in progress: BUSY falls.
DmaHwFinish ==
    /\ dmaPc \in DmaWaiting
    /\ dmaBusy
    /\ dmaBusy' = FALSE
    /\ UNCHANGED << dmaPc, dmaOp, dmaTimeout, dmaDeadline, dmaNow, dmaAbort,
                    dmaWrites, dmaPrinted, dmaErr >>
    /\ UNCHANGED << allocVars, smVars, asmVars, clkVars, cfgVars, claimVars, raceVars, pinVars,
                    spiVars >>

\* The hardware has flushed the aborted transfer: the CHAN_ABORT bit and
\* BUSY fall.
DmaHwAbortDone ==
    /\ dmaPc \in {"abort", "abortYield"}
    /\ dmaAbort
    /\ dmaAbort' = FALSE
    /\ dmaBusy' = FALSE
    /\ UNCHANGED << dmaPc, dmaOp, dmaTimeout, dmaDeadline, dmaNow,
                    dmaWrites, dmaPrinted, dmaErr >>
    /\ UNCHANGED << allocVars, smVars, asmVars, clkVars, cfgVars, claimVars, raceVars, pinVars,
                    spiVars >>

\* Time passes while the call waits on a deadline that is set and not yet
\* expired.
DmaTick ==
    /\ dmaPc \in DmaWaiting
    /\ ~dmaDeadline.zero
    /\ ~expired(dmaDeadline, dmaNow)
    /\ dmaNow' = dmaNow + 1
    /\ UNCHANGED << dmaPc, dmaOp, dmaTimeout, dmaDeadline, dmaBusy, dmaAbort,
                    dmaWrites, dmaPrinted, dmaErr >>
    /\ UNCHANGED << allocVars, smVars, asmVars, clkVars, cfgVars, claimVars, raceVars, pinVars,
                    spiVars >>

\* The steps of the calling goroutine.
DmaStep == DmaContend \/ DmaStart \/ DmaTransfer \/ DmaAbortPoll \/ DmaResume

NextDma ==
    \/ \E op \in {"dmaPush", "dmaPull"}, timeout \in DmaTimeouts, busy \in BOOLEAN :
          DmaCall(op, timeout, busy)
    \/ DmaContend
    \/ DmaStart
    \/ DmaTransfer
    \/ DmaAbortPoll
    \/ DmaResume
    \/ DmaHwFinish
    \/ DmaHwAbortDone
    \/ DmaTick

SpecDma == Init /\ [][NextDma]_vars

\* The same, with the goroutine scheduled again after every yield and the
\* clock advancing; the hardware is free to stay busy for ever.
SpecDmaLive == SpecDma /\ WF_vars(DmaStep) /\ WF_vars(DmaTick)

\* ------------------------------------------------------------------------
\* SPI.Tx (rp2-pio/piolib/spi.go) against the FIFOs of its state machine.
\* ------------------------------------------------------------------------

\* retries := int8(32)
SpiRetryBudget == 32

\* The buffers w of the lengths tried.
SpiBuffers == { [k \in 1 .. n |-> 16 + k] : n \in 1 .. MaxSpiBytes }

\* spi.Tx(w, r) with len(r) = len(w):
\* rxRemain, txRemain := len(r), len(w); retries := int8(32)
SpiTx(w) ==
    /\ spiPc = "idle"
    /\ spiPc' = "top"
    /\ spiW' = w
    /\ spiR' = << >>
    /\ spiTxRemain' = Len(w)
    /\ spiRxRemain' = Len(w)
    /\ spiRetries' = SpiRetryBudget
    /\ UNCHANGED << spiStall, spiTxFifo, spiRxFifo, spiFifoStalled, spiErr >>
    /\ UNCHANGED << allocVars, smVars, asmVars, clkVars, cfgVars, claimVars, raceVars, pinVars,
                    dmaVars >>

\* The loop condition and the first half of an iteration:
\* for rxRemain != 0 || txRemain != 0 { stall := true
\*   if txRemain != 0 && !spi.sm.IsTxFIFOFull() {
\*       spi.sm.TxPut(uint32(w[len(w)-txRemain])); txRemain--; stall = false }
SpiLoopTx ==
    /\ spiPc = "top"
    /\ IF spiRxRemain = 0 /\ spiTxRemain = 0
       THEN /\ spiPc' = "done"
            /\ spiErr' = "nil"
            /\ UNCHANGED << spiTxRemain, spiStall, spiTxFifo, spiFifoStalled >>
       ELSE /\ spiPc' = "rx"
            /\ UNCHANGED spiErr
            /\ IF spiTxRemain # 0 /\ Len(spiTxFifo) < FifoDepth
               THEN /\ spiTxFifo' = Append(spiTxFifo, spiW[Len(spiW) - spiTxRemain + 1])
                    /\ spiTxRemain' = spiTxRemain - 1
                    /\ spiStall' = FALSE
                    /\ UNCHANGED spiFifoStalled
               ELSE /\ spiStall' = TRUE
                    /\ spiFifoStalled' = (spiFifoStalled \/ spiTxRemain # 0)
                    /\ UNCHANGED << spiTxFifo, spiTxRemain >>
    /\ UNCHANGED << spiW, spiR, spiRxRemain, spiRetries, spiRxFifo >>
    /\ UNCHANGED << allocVars, smVars, asmVars, clkVars, cfgVars, claimVars, raceVars, pinVars,
                    dmaVars >>

\* The second half of the iteration:
\*   if txRemain != 0 && !spi.sm.IsRxFIFOEmpty() {
\*       r[len(r)-rxRemain] = uint8(spi.sm.RxGet()); rxRemain--; stall = false }
\*   retries--
\*   if retries <= 0 { return errors.New("pioSPI timeout") } else if stall { gosched() } }
SpiLoopRx ==
    /\ spiPc = "rx"
    /\ IF spiTxRemain # 0 /\ spiRxFifo # << >>
       THEN /\ spiR' = Append(spiR, Head(spiRxFifo) % 256)
            /\ spiRxFifo' = Tail(spiRxFifo)
            /\ spiRxRemain' = spiRxRemain - 1
            /\ spiStall' = FALSE
       ELSE UNCHANGED << spiR, spiRxFifo, spiRxRemain, spiStall >>
    /\ spiFifoStalled' = (spiFifoStalled \/ (spiRxRemain # 0 /\ spiRxFifo = << >>))
    /\ spiRetries' = spiRetries - 1
    /\ IF spiRetries' <= 0
       THEN spiPc' = "done" /\ spiErr' = "pioSPI timeout"
       ELSE spiPc' = "top" /\ UNCHANGED spiErr
    /\ UNCHANGED << spiW, spiTxRemain, spiTxFifo >>
    /\ UNCHANGED << allocVars, smVars, asmVars, clkVars, cfgVars, claimVars, raceVars, pinVars,
                    dmaVars >>

\* The state machine takes a byte from its TX FIFO, clocks it out and
\* pushes the byte clocked in (the peer echoes) to its RX FIFO.
SpiShift ==
    /\ spiPc \in {"top", "rx"}
    /\ spiTxFifo # << >>
    /\ Len(spiRxFifo) < FifoDepth
    /\ spiTxFifo' = Tail(spiTxFifo)
    /\ spiRxFifo' = Append(spiRxFifo, Head(spiTxFifo))
    /\ UNCHANGED << spiPc, spiW, spiR, spiTxRemain, spiRxRemain, spiRetries, spiStall,
                    spiFifoStalled, spiErr >>
    /\ UNCHANGED << allocVars, smVars, asmVars, clkVars, cfgVars, claimVars, raceVars, pinVars,
                    dmaVars >>

NextSpi ==
    \/ \E w \in SpiBuffers : SpiTx(w)
    \/ SpiLoopTx
    \/ SpiLoopRx
    \/ SpiShift

SpecSpi == Init /\ [][NextSpi]_vars

\* Setting pins on a state machine, before or after it is initialized.
NextPins ==
    \/ \E index \in PinSm : StateMachineInit(index, 0, StickyConfig)
    \/ \E index \in PinSm, valueMask \in ValueMasks, pinMask \in PinMasks, naive \in BOOLEAN :
          SetPinsMasked(index, valueMask, pinMask, naive)
    \/ \E index \in PinSm, dirMask \in ValueMasks, pinMask \in PinMasks, naive \in BOOLEAN :
          SetPindirsMasked(index, dirMask, pinMask, naive)

SpecPins == Init /\ [][NextPins]_vars

\* Calls on the state machines of the block, in any order.
NextSM ==
    \/ \E index \in SmIdx, initialPC \in InitialPCs, cfg \in Configs :
          StateMachineInit(index, initialPC, cfg)
    \/ \E index \in EnableSm, enabled \in BOOLEAN :
          StateMachineSetEnabled(index, enabled)
    \/ \E index \in TxSm : TxPut(index)

SpecSM == Init /\ [][NextSM]_vars

\* ------------------------------------------------------------------------
\* Building one instruction: a method of an AssemblerV0 makes it, Side and
\* Delay modify it; or EncodeInstr makes a word directly.
\* ------------------------------------------------------------------------

\* asm.<method>(a, b) on AssemblerV0{SidesetBits: SidesetBits}
AsmMethod(SidesetBits, call) ==
    /\ asmCall.m = "none"
    /\ asmSidesetBits' = SidesetBits
    /\ asmCall' = call
    /\ asmWord' = MethodWord(call.m, call.a, call.b)
    /\ asmMods' = << >>
    /\ UNCHANGED << allocVars, smVars, clkVars, cfgVars, libVars >>

\* EncodeInstr(instr, delaySideset, arg1_3b, arg2_5b)
AsmEncodeInstr(instr, delaySideset, arg1_3b, arg2_5b) ==
    /\ asmCall.m = "none"
    /\ asmCall' = [m |-> "EncodeInstr", k |-> instr, ds |-> delaySideset,
                   a |-> arg1_3b, b |-> arg2_5b]
    /\ asmWord' = EncodeInstr(instr, delaySideset, arg1_3b, arg2_5b)
    /\ UNCHANGED << asmSidesetBits, asmMods >>
    /\ UNCHANGED << allocVars, smVars, clkVars, cfgVars, libVars >>

\* instr.Side(value) on the instruction under construction
AsmSide(value) ==
    /\ asmCall.m \notin {"none", "EncodeInstr"}
    /\ Len(asmMods) < MaxAsmMods
    /\ asmWord' = Side(asmWord, asmSidesetBits, value)
    /\ asmMods' = Append(asmMods, [op |-> "Side", arg |-> value, before |-> asmWord])
    /\ UNCHANGED << asmSidesetBits, asmCall >>
    /\ UNCHANGED << allocVars, smVars, clkVars, cfgVars, libVars >>

\* instr.Delay(cycles) on the instruction under construction
AsmDelay(cycles) ==
    /\ asmCall.m \notin {"none", "EncodeInstr"}
    /\ Len(asmMods) < MaxAsmMods
    /\ asmWord' = Delay(asmWord, asmSidesetBits, cycles)
    /\ asmMods' = Append(asmMods, [op |-> "Delay", arg |-> cycles, before |-> asmWord])
    /\ UNCHANGED << asmSidesetBits, asmCall >>
    /\ UNCHANGED << allocVars, smVars, clkVars, cfgVars, libVars >>

NextAsm ==
    \/ \E w \in AsmWidths, call \in MethodCalls : AsmMethod(w, call)
    \/ \E k \in InstrKinds, ds \in DelaySidesetValues, a \in Arg1Values, b \in Arg2Values :
          AsmEncodeInstr(k, ds, a, b)
    \/ \E value \in SideValues : AsmSide(value)
    \/ \E cycles \in DelayValues : AsmDelay(cycles)

SpecAsm == Init /\ [][NextAsm]_vars

\* EncodeIRQSet(relative, irq), EncodeIRQClear(relative, irq) or
\* EncodeWaitIRQ(polarity, relative, irq)
AsmEncodeIrq(call) ==
    /\ asmCall.m = "none"
    /\ asmCall' = call
    /\ asmWord' = FuncWord(call.m, call.a, call.b)
    /\ UNCHANGED << asmSidesetBits, asmMods >>
    /\ UNCHANGED << allocVars, smVars, clkVars, cfgVars, libVars >>

\* One IRQ-addressing instruction is encoded, by the assembler or by a
\* package-level encoder.
NextIrq ==
    \/ \E w \in AsmWidths, call \in IrqMethodCalls : AsmMethod(w, call)
    \/ \E call \in IrqFuncCalls : AsmEncodeIrq(call)

SpecIrq == Init /\ [][NextIrq]_vars

\* ------------------------------------------------------------------------
\* Computing a clock divider.
\* ------------------------------------------------------------------------

\* whole, frac, err := ClkDivFromFrequency(freq, cpuFreq)
ClkDivCall(freq, cpuFreq) ==
    /\ clkCall' = [fn |-> "ClkDivFromFrequency", x |-> freq, cpuFreq |-> cpuFreq,
                   whole |-> ClkDivFromFrequency(freq, cpuFreq).whole,
                   frac |-> ClkDivFromFrequency(freq, cpuFreq).frac,
                   err |-> ClkDivFromFrequency(freq, cpuFreq).err]
    /\ UNCHANGED << allocVars, smVars, asmVars, cfgVars, libVars >>

NextClk == \E freq \in ClkFreqs, cpuFreq \in ClkFreqs : ClkDivCall(freq, cpuFreq)

SpecClk == Init /\ [][NextClk]_vars

\* whole, frac, err := ClkDivFromPeriod(period, cpuFreq)
ClkDivPeriodCall(period, cpuFreq) ==
    /\ clkCall' = [fn |-> "ClkDivFromPeriod", x |-> period, cpuFreq |-> cpuFreq,
                   whole |-> ClkDivFromPeriod(period, cpuFreq).whole,
                   frac |-> ClkDivFromPeriod(period, cpuFreq).frac,
                   err |-> ClkDivFromPeriod(period, cpuFreq).err]
    /\ UNCHANGED << allocVars, smVars, asmVars, cfgVars, libVars >>

NextPeriod == \E period \in Periods, cpuFreq \in CpuFreqs : ClkDivPeriodCall(period, cpuFreq)

SpecPeriod == Init /\ [][NextPeriod]_vars

\* ------------------------------------------------------------------------
\* Building a StateMachineConfig with its setters.
\* ------------------------------------------------------------------------

\* One setter call on the configuration: a panic leaves the configuration
\* as it was and ends the program.
CfgCall(op, args, panics, post) ==
    /\ Len(cfgLog) < MaxCfgCalls
    /\ \A i \in 1 .. Len(cfgLog) : ~cfgLog[i].panics
    /\ config' = IF panics THEN config ELSE post
    /\ cfgLog' = Append(cfgLog, [op |-> op, a |-> args[1], b |-> args[2], c |-> args[3],
                                 pre |-> config, panics |-> panics])
    /\ UNCHANGED << allocVars, smVars, asmVars, clkVars, libVars >>

\* cfg := DefaultStateMachineConfig()
CfgDefault ==
    /\ cfgLog = << >>
    /\ config = ZeroConfig
    /\ config' = DefaultStateMachineConfig
    /\ UNCHANGED cfgLog
    /\ UNCHANGED << allocVars, smVars, asmVars, clkVars, libVars >>

CfgSetClkDivIntFrac(x) ==
    CfgCall("SetClkDivIntFrac", x, FALSE, SetClkDivIntFrac(config, x[1], x[2]))
CfgSetWrap(x) ==
    CfgCall("SetWrap", x, FALSE, SetWrap(config, x[1], x[2]))
CfgSetInShift(x) ==
    CfgCall("SetInShift", x, FALSE, SetInShift(config, x[1] = 1, x[2] = 1, x[3]))
CfgSetOutShift(x) ==
    CfgCall("SetOutShift", x, FALSE, SetOutShift(config, x[1] = 1, x[2] = 1, x[3]))
CfgSetSidesetParams(x) ==
    CfgCall("SetSidesetParams", x, x[1] > 5, SetSidesetParams(config, x[1], x[2] = 1, x[3] = 1))
CfgSetSidesetPins(x) ==
    CfgCall("SetSidesetPins", x, checkPinBaseAndCount(x[1], 1), SetSidesetPins(config, x[1]))
CfgSetOutPins(x) ==
    CfgCall("SetOutPins", x, checkPinBaseAndCount(x[1], x[2]), SetOutPins(config, x[1], x[2]))
CfgSetSetPins(x) ==
    CfgCall("SetSetPins", x, checkPinBaseAndCount(x[1], x[2]), SetSetPins(config, x[1], x[2]))
CfgSetInPins(x) ==
    CfgCall("SetInPins", x, checkPinBaseAndCount(x[1], 1), SetInPins(config, x[1]))
CfgSetJmpPin(x) ==
    CfgCall("SetJmpPin", x, checkPinBaseAndCount(x[1], 1), SetJmpPin(config, x[1]))
CfgSetOutSpecial(x) ==
    CfgCall("SetOutSpecial", x, FALSE, SetOutSpecial(config, x[1] = 1, x[2] = 1, x[3]))
CfgSetMovStatus(x) ==
    CfgCall("SetMovStatus", x, FALSE, SetMovStatus(config, x[1], x[2]))
CfgSetFIFOJoin(x) ==
    CfgCall("SetFIFOJoin", x, x[1] > FifoJoinRx, SetFIFOJoin(config, x[1]))

NextCfg ==
    \/ CfgDefault
    \/ \E x \in SetterArgs("SetClkDivIntFrac") : CfgSetClkDivIntFrac(x)
    \/ \E x \in SetterArgs("SetWrap") : CfgSetWrap(x)
    \/ \E x \in SetterArgs("SetInShift") : CfgSetInShift(x)
    \/ \E x \in SetterArgs("SetOutShift") : CfgSetOutShift(x)
    \/ \E x \in SetterArgs("SetSidesetParams") : CfgSetSidesetParams(x)
    \/ \E x \in SetterArgs("SetSidesetPins") : CfgSetSidesetPins(x)
    \/ \E x \in SetterArgs("SetOutPins") : CfgSetOutPins(x)
    \/ \E x \in SetterArgs("SetSetPins") : CfgSetSetPins(x)
    \/ \E x \in SetterArgs("SetInPins") : CfgSetInPins(x)
    \/ \E x \in SetterArgs("SetJmpPin") : CfgSetJmpPin(x)
    \/ \E x \in SetterArgs("SetOutSpecial") : CfgSetOutSpecial(x)
    \/ \E x \in SetterArgs("SetMovStatus") : CfgSetMovStatus(x)
    \/ \E x \in SetterArgs("SetFIFOJoin") : CfgSetFIFOJoin(x)

SpecCfg == Init /\ [][NextCfg]_vars

\* ------------------------------------------------------------------------
\* Claiming state machines (rp2-pio/statemachine.go, rp2-pio/pio.go), the
\* calls made one at a time.
\* ------------------------------------------------------------------------

\* A test that finds every state machine unclaimed.
neverClaimed(mask, index) == FALSE

\* sm.IsClaimed(): claimedSMMask&(1<<sm.index) != 0
IsClaimed(mask, index) == index \in mask

\* A TryClaim that tells every caller it owns the state machine.
tryClaimAlwaysTrue(mask, index) == [ok |-> TRUE, mask |-> mask \cup {index}]

\* sm.TryClaim(): the result and the mask after it.
TryClaimOn(mask, index) ==
    IF IsClaimed(mask, index)
    THEN [ok |-> FALSE, mask |-> mask]
    ELSE [ok |-> TRUE, mask |-> mask \cup {index}]

\* sm.Unclaim(): claimedSMMask &^= (1 << sm.index)
UnclaimOn(mask, index) == mask \ {index}

\* The loop of ClaimStateMachine from index i on.
RECURSIVE claimLoop(_, _)
claimLoop(mask, i) ==
    IF i >= 4
    THEN [sm |-> 0, err |-> "errStateMachineClaimed", mask |-> mask]
    ELSE IF TryClaimOn(mask, i).ok
         THEN [sm |-> i, err |-> "nil", mask |-> TryClaimOn(mask, i).mask]
         ELSE claimLoop(TryClaimOn(mask, i).mask, i + 1)

\* ok := pio.StateMachine(index).TryClaim()
TryClaim(index) ==
    /\ claimCalls < MaxClaimCalls
    /\ claimedSMMask' = TryClaimOn(claimedSMMask, index).mask
    /\ granted' = IF TryClaimOn(claimedSMMask, index).ok
                  THEN [granted EXCEPT ![index] = @ + 1] ELSE granted
    /\ claimLast' = [op |-> "TryClaim", index |-> index, pre |-> claimedSMMask,
                     ok |-> TryClaimOn(claimedSMMask, index).ok, sm |-> index, err |-> "nil"]
    /\ claimCalls' = claimCalls + 1
    /\ UNCHANGED << allocVars, smVars, asmVars, clkVars, cfgVars >>
    /\ UNCHANGED << raceVars, pinVars, xferVars >>

\* sm, err := pio.ClaimStateMachine()
ClaimStateMachine ==
    /\ claimCalls < MaxClaimCalls
    /\ claimedSMMask' = claimLoop(claimedSMMask, 0).mask
    /\ granted' = IF claimLoop(claimedSMMask, 0).err = "nil"
                  THEN [granted EXCEPT ![claimLoop(claimedSMMask, 0).sm] = @ + 1] ELSE granted
    /\ claimLast' = [op |-> "ClaimStateMachine", index |-> 0, pre |-> claimedSMMask,
                     ok |-> claimLoop(claimedSMMask, 0).err = "nil",
                     sm |-> claimLoop(claimedSMMask, 0).sm,
                     err |-> claimLoop(claimedSMMask, 0).err]
    /\ claimCalls' = claimCalls + 1
    /\ UNCHANGED << allocVars, smVars, asmVars, clkVars, cfgVars >>
    /\ UNCHANGED << raceVars, pinVars, xferVars >>

\* pio.StateMachine(index).Unclaim()
Unclaim(index) ==
    /\ claimCalls < MaxClaimCalls
    /\ claimedSMMask' = UnclaimOn(claimedSMMask, index)
    /\ granted' = [granted EXCEPT ![index] = 0]
    /\ claimLast' = [op |-> "Unclaim", index |-> index, pre |-> claimedSMMask,
                     ok |-> TRUE, sm |-> index, err |-> "nil"]
    /\ claimCalls' = claimCalls + 1
    /\ UNCHANGED << allocVars, smVars, asmVars, clkVars, cfgVars >>
    /\ UNCHANGED << raceVars, pinVars, xferVars >>

NextClaim ==
    \/ \E index \in SmIdx : TryClaim(index)
    \/ ClaimStateMachine
    \/ \E index \in SmIdx : Unclaim(index)

SpecClaim == Init /\ [][NextClaim]_vars

\* ------------------------------------------------------------------------
\* Two execution contexts on one PIO block.  A call is a sequence of steps,
\* each reading or writing the block once; a caller that serializes its
\* calls holds a lock from the first step of a call to its last.
\* ------------------------------------------------------------------------

\* The lock after context c has finished its call.
Released(c) == IF tasks[c].locked THEN 0 ELSE mutex

\* The words a finished AddProgram call was given: offset .. offset+len-1.
TaskSpan(c) == tasks[c].offset .. (tasks[c].offset + Len(tasks[c].instrs) - 1)

\* AddProgram, first step: maybeOffset := pio.findOffsetForProgram(instructions, origin)
RaceAddFind(c, instructions, origin, locked) ==
    LET maybeOffset == findOffsetForProgram(usedSpaceMask, instructions, origin)
    IN /\ tasks[c].pc = "idle"
       /\ locked => mutex = 0
       /\ IF maybeOffset < 0
          THEN /\ tasks' = [tasks EXCEPT ![c] =
                               [IdleTask EXCEPT !.pc = "done", !.op = "AddProgram",
                                                !.locked = locked, !.instrs = instructions,
                                                !.origin = origin,
                                                !.err = "ErrOutOfProgramSpace"]]
               /\ mutex' = mutex
          ELSE /\ tasks' = [tasks EXCEPT ![c] =
                               [IdleTask EXCEPT !.pc = "found", !.op = "AddProgram",
                                                !.locked = locked, !.instrs = instructions,
                                                !.origin = origin,
                                                !.offset = U8(maybeOffset)]]
               /\ mutex' = IF locked THEN c ELSE mutex
       /\ UNCHANGED << allocVars, smVars, asmVars, clkVars, cfgVars, claimVars, pinVars, xferVars >>

\* AddProgramAtOffset, first step: if !pio.CanAddProgramAtOffset(...) return
\* ErrNoSpaceAtOffset; AddProgram drops that error and returns the offset.
RaceAddCheck(c) ==
    /\ tasks[c].pc = "found"
    /\ IF CanAddProgramAtOffset(usedSpaceMask, tasks[c].instrs, tasks[c].origin,
                                tasks[c].offset)
       THEN /\ tasks' = [tasks EXCEPT ![c].pc = "checked"]
            /\ mutex' = mutex
       ELSE /\ tasks' = [tasks EXCEPT ![c].pc = "done", ![c].ok = TRUE]
            /\ mutex' = Released(c)
    /\ UNCHANGED << allocVars, smVars, asmVars, clkVars, cfgVars, claimVars, pinVars, xferVars >>

\* AddProgramAtOffset, the rest: the words are stored and the space marked.
RaceAddStore(c) ==
    /\ tasks[c].pc = "checked"
    /\ instrMem' = loadLoop(instrMem, tasks[c].instrs, tasks[c].offset, 0)
    /\ usedSpaceMask' = markUsed(usedSpaceMask, tasks[c].instrs, tasks[c].offset)
    /\ tasks' = [tasks EXCEPT ![c].pc = "done", ![c].ok = TRUE, ![c].wrote = TRUE]
    /\ mutex' = Released(c)
    /\ UNCHANGED << live, loaded, allocs, ncalls, last >>
    /\ UNCHANGED << smVars, asmVars, clkVars, cfgVars, claimVars, pinVars, xferVars >>

NextAddRace ==
    \/ \E c \in Contexts, instructions \in RaceCatalog, origin \in RaceOrigins,
           locked \in BOOLEAN : RaceAddFind(c, instructions, origin, locked)
    \/ \E c \in Contexts : RaceAddCheck(c)
    \/ \E c \in Contexts : RaceAddStore(c)

SpecAddRace == Init /\ [][NextAddRace]_vars

\* TryClaim, first step: if sm.IsClaimed() return false
RaceTryClaim(c, index, locked) ==
    /\ tasks[c].pc = "idle"
    /\ locked => mutex = 0
    /\ IF IsClaimed(claimedSMMask, index)
       THEN /\ tasks' = [tasks EXCEPT ![c] =
                            [IdleTask EXCEPT !.pc = "done", !.op = "TryClaim",
                                             !.locked = locked, !.index = index]]
            /\ mutex' = mutex
       ELSE /\ tasks' = [tasks EXCEPT ![c] =
                            [IdleTask EXCEPT !.pc = "tested", !.op = "TryClaim",
                                             !.locked = locked, !.index = index]]
            /\ mutex' = IF locked THEN c ELSE mutex
    /\ UNCHANGED << allocVars, smVars, asmVars, clkVars, cfgVars, claimVars, pinVars, xferVars >>

\* ClaimStateMachine is entered: i := uint8(0)
RaceClaimStateMachine(c, locked) ==
    /\ tasks[c].pc = "idle"
    /\ locked => mutex = 0
    /\ tasks' = [tasks EXCEPT ![c] =
                    [IdleTask EXCEPT !.pc = "looping", !.op = "ClaimStateMachine",
                                     !.locked = locked, !.index = 0]]
    /\ mutex' = IF locked THEN c ELSE mutex
    /\ UNCHANGED << allocVars, smVars, asmVars, clkVars, cfgVars, claimVars, pinVars, xferVars >>

\* ClaimStateMachine, one turn of the loop up to the test in TryClaim.
RaceClaimTest(c) ==
    /\ tasks[c].pc = "looping"
    /\ IF tasks[c].index >= 4
       THEN /\ tasks' = [tasks EXCEPT ![c].pc = "done", ![c].index = 0,
                                      ![c].err = "errStateMachineClaimed"]
            /\ mutex' = Released(c)
       ELSE IF IsClaimed(claimedSMMask, tasks[c].index)
       THEN /\ tasks' = [tasks EXCEPT ![c].index = @ + 1]
            /\ mutex' = mutex
       ELSE /\ tasks' = [tasks EXCEPT ![c].pc = "tested"]
            /\ mutex' = mutex
    /\ UNCHANGED << allocVars, smVars, asmVars, clkVars, cfgVars, claimVars, pinVars, xferVars >>

\* TryClaim, second step: sm.pio.claimedSMMask |= 1 << sm.index; return true
RaceClaimSet(c) ==
    /\ tasks[c].pc = "tested"
    /\ claimedSMMask' = claimedSMMask \cup {tasks[c].index}
    /\ tasks' = [tasks EXCEPT ![c].pc = "done", ![c].ok = TRUE]
    /\ mutex' = Released(c)
    /\ UNCHANGED << granted, claimLast, claimCalls >>
    /\ UNCHANGED << allocVars, smVars, asmVars, clkVars, cfgVars, pinVars, xferVars >>

NextClaimRace ==
    \/ \E c \in Contexts, index \in SmIdx, locked \in BOOLEAN : RaceTryClaim(c, index, locked)
    \/ \E c \in Contexts, locked \in BOOLEAN : RaceClaimStateMachine(c, locked)
    \/ \E c \in Contexts : RaceClaimTest(c)
    \/ \E c \in Contexts : RaceClaimSet(c)

SpecClaimRace == Init /\ [][NextClaimRace]_vars

\* Calls of the whole allocator API, in any order.
Next ==
    \/ \E p \in ApiCatalog, origin \in ApiOrigins : AddProgram(p, origin)
    \/ \E p \in OffsetCatalog, origin \in OffsetOrigins, offset \in Offsets :
          AddProgramAtOffset(p, origin, offset)
    \/ \E s \in Sections : ClearProgramSection(s[1], s[2])

Spec == Init /\ [][Next]_vars

\* Sequences of AddProgram calls alone, on a fresh block.
NextAdd == \E p \in Catalog, origin \in Origins : AddProgram(p, origin)

SpecAdd == Init /\ [][NextAdd]_vars

\* Sequences of AddProgram calls of the older package, on a fresh block.
NextLegacy == \E p \in Catalog, origin \in Origins : LegacyAddProgram(p, origin)

SpecLegacy == Init /\ [][NextLegacy]_vars

\* ------------------------------------------------------------------------
\* Properties of the allocator.
\* ------------------------------------------------------------------------

\* The words offset .. offset+len-1 of a span.
Span(offset, len) == offset .. (offset + len - 1)

Max(S) == CHOOSE x \in S : \A y \in S : y <= x

IsLoadCall == last.op \in {"AddProgram", "AddProgramAtOffset"}

\* C1: the word ranges [offset, offset+len) of any two successful AddProgram
\* calls made on a fresh block are disjoint.
C1_AllocationsDisjoint ==
    \A i, j \in 1 .. Len(allocs) :
        i < j => Span(allocs[i][1], allocs[i][2]) \cap Span(allocs[j][1], allocs[j][2]) = {}

\* C1 witness: three successful calls, the programs of lengths 1 .. 32, one of
\* them relocatable and one at a fixed origin.
C1_Witness ==
    /\ Len(allocs) = 3
    /\ \A i \in 1 .. 3 : allocs[i][2] \in 1 .. MemWords
    /\ last.op = "AddProgram" /\ last.err = "nil" /\ last.origin < 0
    /\ \E i \in 1 .. 2 : allocs[i][1] = 13

C4_TooLongIsRefused ==
    (last.op = "AddProgram" /\ last.len > MemWords - Cardinality(last.preMask)) =>
        last.err = "ErrOutOfProgramSpace"

\* C5: AddProgramAtOffset returns ErrNoSpaceAtOffset, writing nothing and
\* leaving usedSpaceMask alone, whenever offset + len > 32, a bit of
\* [offset, offset+len) is set, or origin >= 0 differs from offset; and it
\* never writes an instruction-memory index of 32 or more.
C5_FitValidatedBeforeWriting ==
    last.op = "AddProgramAtOffset" =>
        /\ ( \/ last.offset + last.len > MemWords
             \/ Span(last.offset, last.len) \cap last.preMask # {}
             \/ (last.origin >= 0 /\ last.origin # last.offset) )
           => /\ last.err = "ErrNoSpaceAtOffset"
              /\ last.writes = {}
              /\ usedSpaceMask = last.preMask
        /\ \A wr \in last.writes : wr[1] < MemWords

\* The offsets at which a program of n words fits in the free words of mask.
FreeOffsets(mask, n) ==
    {o \in 0 .. (MemWords - n) : Span(o, n) \cap mask = {}}

\* C6: for a relocatable program of length n in 1..32 AddProgram returns the
\* largest offset o in 0..32-n whose bits o..o+n-1 are all clear (32-n on an
\* empty memory), and ErrOutOfProgramSpace exactly when there is none.
C6_TopDownFirstFit ==
    (last.op = "AddProgram" /\ last.origin < 0 /\ last.len \in 1 .. MemWords) =>
        LET free == FreeOffsets(last.preMask, last.len)
        IN /\ (free = {}) <=> (last.err = "ErrOutOfProgramSpace")
           /\ (free # {}) => (last.err = "nil" /\ last.offset = Max(free))
           /\ (last.preMask = {}) => last.offset = MemWords - last.len

\* C6 witness: a relocatable program placed in a gap, below used words it did
\* not fit above and above other used words.
C6_Witness ==
    /\ last.op = "AddProgram" /\ last.origin < 0 /\ last.err = "nil"
    /\ last.len \in 1 .. MemWords
    /\ \E b \in last.preMask : b < last.offset
    /\ \E b \in last.preMask : b > last.offset + last.len - 1
    /\ FreeOffsets(last.preMask, 1) \cap ((last.offset + last.len) .. 31) # {}

\* C7: for a fixed origin g >= 0 and a program of length n in 1..32 AddProgram
\* succeeds exactly when g + n <= 32 and bits g..g+n-1 are clear, and then at
\* offset g; otherwise it returns ErrOutOfProgramSpace and loads nothing.
C7_FixedOrigin ==
    (last.op = "AddProgram" /\ last.origin >= 0 /\ last.len \in 1 .. MemWords) =>
        LET g == last.origin
            n == last.len
            fits == g + n <= MemWords /\ Span(g, n) \cap last.preMask = {}
        IN IF fits
           THEN /\ last.err = "nil"
                /\ last.offset = g
                /\ usedSpaceMask = last.preMask \cup Span(g, n)
           ELSE /\ last.err = "ErrOutOfProgramSpace"
                /\ last.writes = {}
                /\ usedSpaceMask = last.preMask
                /\ instrMem = last.preMem

\* C7 witness: a 3-word program with fixed origin 30 is refused although
\* words 30 and 31 are free.
C7_Witness ==
    /\ last.op = "AddProgram" /\ last.origin = 30 /\ last.len = 3
    /\ last.preMask # {} /\ last.preMask \cap {30, 31} = {}
    /\ last.err = "ErrOutOfProgramSpace"

\* C8: when AddProgram returns (offset, nil), words offset..offset+len-1 hold
\* the program's instructions, jumps relocated by offset, and exactly bits
\* offset..offset+len-1 have been added to usedSpaceMask.
C8_LoadedAtReturnedOffset ==
    (last.op = "AddProgram" /\ last.err = "nil") =>
        /\ \A i \in 0 .. (last.len - 1) :
              (last.offset + i) \in WordIdx =>
                  instrMem[last.offset + i] = Relocate(last.instrs[i + 1], last.offset)
        /\ usedSpaceMask = last.preMask \cup (Span(last.offset, last.len) \cap Bit32)

\* C9: bit i of usedSpaceMask is set exactly when word i holds an instruction
\* of a program loaded and not cleared since, and the bits of a loaded
\* program's span are all set or all clear.
C9_MaskMatchesLiveWords ==
    /\ \A i \in WordIdx : (i \in usedSpaceMask) <=> (i \in live)
    /\ \A s \in loaded :
          LET span == Span(s[1], s[2]) \cap WordIdx
          IN span \subseteq usedSpaceMask \/ span \cap usedSpaceMask = {}

\* C10: after ClearProgramSection(offset, len) with offset + len <= 32 every
\* word i of offset..offset+len-1 holds an unconditional jump to i itself.
C10_ClearedWordsTrapOnThemselves ==
    (last.op = "ClearProgramSection" /\ last.err = "nil"
        /\ last.offset + last.len <= MemWords) =>
        \A i \in Span(last.offset, last.len) : instrMem[i] = Jmp(i, JmpAlways)

\* ------------------------------------------------------------------------
\* Properties of the state machines.
\* ------------------------------------------------------------------------

\* The configuration Init is to write for the argument cfg.
ConfigWritten(cfg) == IF cfg = ZeroConfig THEN DefaultStateMachineConfig ELSE cfg

\* C3: every call Init(initialPC, cfg) on state machine i makes exactly these
\* register accesses, in this order: the enable bit of i is cleared; CLKDIV,
\* EXECCTRL, SHIFTCTRL and PINCTRL of i are set to cfg, or to the default
\* configuration when cfg is the zero value; the FIFOs of i are flushed by
\* toggling FJOIN_RX twice; the four sticky FDEBUG flags of i are cleared;
\* the restart bit of i is set; the clock-divider restart bit of i is set;
\* and last an unconditional jump to initialPC is executed.  After the call
\* the state machine is disabled, configured, its TX FIFO and flags are
\* clear and its program counter is initialPC.
C3_InitOrder ==
    lastSm.op = "Init" =>
        LET i == lastSm.index
            c == ConfigWritten(lastSm.cfg)
            blk == -1
        IN /\ hwlog =
                << [reg |-> "CTRL", sm |-> blk, op |-> "ReplaceBits", bits |-> {},
                    mask |-> {CTRL_SM_ENABLE_Pos + i}],
                   [reg |-> "CLKDIV", sm |-> i, op |-> "Set", bits |-> c.ClkDiv, mask |-> {}],
                   [reg |-> "EXECCTRL", sm |-> i, op |-> "Set", bits |-> c.ExecCtrl, mask |-> {}],
                   [reg |-> "SHIFTCTRL", sm |-> i, op |-> "Set", bits |-> c.ShiftCtrl, mask |-> {}],
                   [reg |-> "PINCTRL", sm |-> i, op |-> "Set", bits |-> c.PinCtrl, mask |-> {}],
                   [reg |-> "SHIFTCTRL", sm |-> i, op |-> "Xor", bits |-> {31}, mask |-> {}],
                   [reg |-> "SHIFTCTRL", sm |-> i, op |-> "Xor", bits |-> {31}, mask |-> {}],
                   [reg |-> "FDEBUG", sm |-> blk, op |-> "Set",
                    bits |-> {FDEBUG_RXSTALL_Pos + i, FDEBUG_RXUNDER_Pos + i,
                              FDEBUG_TXOVER_Pos + i, FDEBUG_TXSTALL_Pos + i},
                    mask |-> {}],
                   [reg |-> "CTRL", sm |-> blk, op |-> "SetBits",
                    bits |-> {CTRL_SM_RESTART_Pos + i}, mask |-> {}],
                   [reg |-> "CTRL", sm |-> blk, op |-> "SetBits",
                    bits |-> {CTRL_CLKDIV_RESTART_Pos + i}, mask |-> {}],
                   [reg |-> "INSTR", sm |-> i, op |-> "Set",
                    bits |-> BitsOf(lastSm.initialPC), mask |-> {}] >>
           /\ (CTRL_SM_ENABLE_Pos + i) \notin ctrl
           /\ smRegs[i] = c
           /\ c # ZeroConfig
           /\ txLevel[i] = 0
           /\ fdebug \cap {i, 8 + i, 16 + i, 24 + i} = {}
           /\ smPC[i] = lastSm.initialPC

\* C3 witness: Init with the zero configuration and initial program counter 31
\* on state machine 3, which was enabled, had a full TX FIFO and its TXOVER
\* flag set.
C3_Witness ==
    /\ lastSm.op = "Init" /\ lastSm.index = 3
    /\ lastSm.cfg = ZeroConfig /\ lastSm.initialPC = 31
    /\ (CTRL_SM_ENABLE_Pos + 3) \in lastSm.preCtrl
    /\ lastSm.preTx = FifoDepth
    /\ (FDEBUG_TXOVER_Pos + 3) \in lastSm.preFdebug
    /\ smRegs[3] = DefaultStateMachineConfig

\* ------------------------------------------------------------------------
\* Further properties of the allocator.
\* ------------------------------------------------------------------------

\* C11: ClearProgramSection(offset, len) with offset + len <= 32 returns
\* without panicking, clears exactly bits offset..offset+len-1 of
\* usedSpaceMask and leaves every other bit and every word outside the range
\* as it was; after ClearProgramSection(0, 32) usedSpaceMask is 0 and every
\* program of length 1..32 finds an offset again, relocatable or at origin 0.
C11_ClearFrame ==
    (last.op = "ClearProgramSection" /\ last.offset + last.len <= MemWords) =>
        /\ last.err = "nil"
        /\ usedSpaceMask = last.preMask \ Span(last.offset, last.len)
        /\ \A w \in WordIdx \ Span(last.offset, last.len) : instrMem[w] = last.preMem[w]
        /\ (last.offset = 0 /\ last.len = MemWords) =>
              /\ usedSpaceMask = {}
              /\ \A p \in Catalog :
                    Len(p) \in 1 .. MemWords =>
                       /\ findOffsetForProgram(usedSpaceMask, p, -1) = MemWords - Len(p)
                       /\ findOffsetForProgram(usedSpaceMask, p, 0) = 0

\* C11 witness: a section holding a loaded program is cleared while another
\* program stays loaded below it.
C11_Witness ==
    /\ last.op = "ClearProgramSection" /\ last.err = "nil"
    /\ last.offset = 29 /\ last.len = 3
    /\ Span(29, 3) \subseteq last.preMask
    /\ usedSpaceMask # {}
    /\ usedSpaceMask = last.preMask \ Span(29, 3)

\* ------------------------------------------------------------------------
\* Properties of the assembler.
\* ------------------------------------------------------------------------

\* The instruction under construction came from an assembler method.
IsInstruction == asmCall.m \notin {"none", "EncodeInstr"}

\* The program of the three-wire SPI example as pioasm assembles it with
\* .side_set 1: method, arguments, side value and word.
Spi3w ==
    { << MethodCall("Out", 0, 1), 0, 24577 >>,      \* out pins, 1     side 0   0x6001
      << MethodCall("Jmp", 0, 2), 1, 4160 >>,       \* jmp x--, 0      side 1   0x1040
      << MethodCall("Jmp", 7, 3), 0, 103 >>,        \* jmp !y, 7       side 0   0x0067
      << MethodCall("Set", 4, 0), 0, 57472 >>,      \* set pindirs, 0  side 0   0xe080
      << MethodCall("Nop", 0, 0), 0, 41026 >>,      \* nop             side 0   0xa042
      << MethodCall("In", 0, 1), 1, 20481 >>,       \* in pins, 1      side 1   0x5001
      << MethodCall("Jmp", 5, 4), 0, 133 >>,        \* jmp y--, 5      side 0   0x0085
      << MethodCall("WaitPin", 1, 0), 0, 8352 >>,   \* wait 1 pin, 0   side 0   0x20a0
      << MethodCall("IRQSet", 0, 0), 0, 49152 >> }  \* irq nowait 0    side 0   0xc000

\* C12: with side-set width 1 an instruction made by an assembler method and
\* given side value v in {0, 1} encodes as the method's opcode and operands
\* with v in bit 12 and bits 8..11 clear, and the nine instructions of the
\* SPI example encode to the words pioasm produces.
C12_SideWidth1 ==
    (IsInstruction /\ asmSidesetBits = 1 /\ Len(asmMods) = 1
        /\ asmMods[1].op = "Side" /\ asmMods[1].arg \in {0, 1}) =>
        /\ asmWord = asmMods[1].before + asmMods[1].arg * 4096
        /\ Bits16(asmMods[1].before) \cap (8 .. 12) = {}
        /\ \A e \in Spi3w :
              (asmCall = e[1] /\ asmMods[1].arg = e[2]) => asmWord = e[3]

\* C12 witness: jmp x--, 0 side 1 has been assembled to 0x1040.
C12_Witness ==
    /\ asmSidesetBits = 1 /\ asmCall = MethodCall("Jmp", 0, 2)
    /\ Len(asmMods) = 1 /\ asmMods[1].op = "Side" /\ asmMods[1].arg = 1
    /\ asmWord = 4160

\* The operand fields of an instruction word: delay/side-set (bits 8..12),
\* arg1 (bits 5..7) and arg2 (bits 0..4).
DelaySidesetField(word) == (word \div 256) % 32
Arg1Field(word) == (word \div 32) % 8
Arg2Field(word) == word % 32

\* C13: the kind and the operands are recoverable from the word EncodeInstr
\* returns: the operand fields of the word are the operands, and no other
\* instruction kind yields the same word with the same operands.
C13_EncodeInstrLossless ==
    asmCall.m = "EncodeInstr" =>
        /\ DelaySidesetField(asmWord) = asmCall.ds
        /\ Arg1Field(asmWord) = asmCall.a
        /\ Arg2Field(asmWord) = asmCall.b
        /\ \A k \in InstrKinds :
              EncodeInstr(k, asmCall.ds, asmCall.a, asmCall.b) = asmWord => k = asmCall.k

\* The instruction kind of an assembler method, and the operands the method
\* packs into arg1 and arg2 (a and b as in MethodWord).
MethodKind(m) ==
    CASE m = "Jmp" -> InstrJMP
      [] m \in {"WaitPin", "WaitGPIO"} -> InstrWAIT
      [] m = "In" -> InstrIN
      [] m = "Out" -> InstrOUT
      [] m = "Push" -> InstrPUSH
      [] m = "Mov" -> InstrMOV
      [] m = "IRQSet" -> InstrIRQ
      [] m = "Set" -> InstrSET
MethodPacking(m, a, b) ==
    CASE m = "Jmp" -> << b, a >>
      [] m = "WaitPin" -> << 1 + 4 * a, b >>
      [] m = "WaitGPIO" -> << 4 * a, b >>
      [] m = "Push" -> << 2 * a + b, 0 >>
      [] m = "IRQSet" -> << 0, 16 * a + b >>
      [] m \in {"In", "Out", "Mov", "Set"} -> << a, b >>
PackedMethods == {"Jmp", "WaitPin", "WaitGPIO", "In", "Out", "Push", "Mov", "IRQSet", "Set"}

\* C14: an assembler method returns the word EncodeInstr returns for the
\* method's instruction kind, no delay/side-set, and the method's operands.
C14_MethodsMatchEncodeInstr ==
    (IsInstruction /\ asmMods = << >> /\ asmCall.m \in PackedMethods) =>
        asmWord = EncodeInstr(MethodKind(asmCall.m), 0,
                              MethodPacking(asmCall.m, asmCall.a, asmCall.b)[1],
                              MethodPacking(asmCall.m, asmCall.a, asmCall.b)[2])

\* The side-set sub-range and the delay sub-range of an instruction word for
\* side-set width w, and the word after the i-th Side or Delay call.
SidesetRange(w) == (13 - w) .. 12
DelayRange(w) == 8 .. (12 - w)
WordAfter(i) == IF i = Len(asmMods) THEN asmWord ELSE asmMods[i + 1].before

\* C15: for side-set width 1..5 and values below 2^w, Side changes no bit
\* outside the side-set sub-range, and a second Side replaces the value of
\* the first: x.Side(a).Side(b) is x.Side(b).
C15_SideReplaces ==
    (IsInstruction /\ asmSidesetBits \in 1 .. 5) =>
        /\ \A i \in 1 .. Len(asmMods) :
              (asmMods[i].op = "Side" /\ asmMods[i].arg < 2 ^ asmSidesetBits) =>
                  Bits16(WordAfter(i)) \ SidesetRange(asmSidesetBits)
                      = Bits16(asmMods[i].before) \ SidesetRange(asmSidesetBits)
        /\ (/\ Len(asmMods) = 2
            /\ asmMods[1].op = "Side" /\ asmMods[1].arg < 2 ^ asmSidesetBits
            /\ asmMods[2].op = "Side" /\ asmMods[2].arg < 2 ^ asmSidesetBits) =>
               asmWord = Side(asmMods[1].before, asmSidesetBits, asmMods[2].arg)

\* C16: for side-set width 0..5 and cycles 0..31, Delay changes only the
\* delay bits 8..12-w, and Side then Delay gives the word Delay then Side
\* gives.
C16_DelayFrame ==
    (IsInstruction /\ asmSidesetBits \in 0 .. 5) =>
        /\ \A i \in 1 .. Len(asmMods) :
              asmMods[i].op = "Delay" =>
                  Bits16(WordAfter(i)) \ DelayRange(asmSidesetBits)
                      = Bits16(asmMods[i].before) \ DelayRange(asmSidesetBits)
        /\ (/\ Len(asmMods) = 2
            /\ asmMods[1].op = "Side" /\ asmMods[1].arg < 2 ^ asmSidesetBits
            /\ asmMods[2].op = "Delay") =>
               asmWord = Side(Delay(asmMods[1].before, asmSidesetBits, asmMods[2].arg),
                              asmSidesetBits, asmMods[1].arg)

\* ------------------------------------------------------------------------
\* Properties of the clock divider.
\* ------------------------------------------------------------------------

\* C17: when ClkDivFromFrequency(freq, cpuFreq) succeeds, 256*whole + frac
\* is the floor of 256*cpuFreq/freq, whole is in 1..65535 and frac in
\* 0..255; and ClkDivFromFrequency(f, f) gives whole 1, frac 0 for f > 0.
C17_ClkDivIsFloor ==
    clkCall.fn = "ClkDivFromFrequency" =>
        /\ clkCall.err = "nil" =>
              /\ (256 * clkCall.whole + clkCall.frac) * clkCall.x <= 256 * clkCall.cpuFreq
              /\ 256 * clkCall.cpuFreq < (256 * clkCall.whole + clkCall.frac + 1) * clkCall.x
              /\ clkCall.whole \in 1 .. 65535
              /\ clkCall.frac \in 0 .. 255
        /\ (clkCall.x = clkCall.cpuFreq /\ clkCall.x > 0) =>
              (clkCall.err = "nil" /\ clkCall.whole = 1 /\ clkCall.frac = 0)

\* C17 witness: 256*5/3 = 426.67 has been truncated to whole 1, frac 170.
C17_Witness ==
    /\ clkCall.fn = "ClkDivFromFrequency" /\ clkCall.x = 3 /\ clkCall.cpuFreq = 5
    /\ clkCall.err = "nil" /\ clkCall.whole = 1 /\ clkCall.frac = 170

\* C18: ClkDivFromFrequency returns for every pair of arguments: a range
\* error exactly when 256*cpuFreq/freq is below 256 or above 256*65535, a
\* result otherwise, and never a panic.
C18_ClkDivAlwaysReturns ==
    clkCall.fn = "ClkDivFromFrequency" =>
        /\ clkCall.err # "panic"
        /\ clkCall.x > 0 =>
              /\ clkCall.err = "too small" <=> (256 * clkCall.cpuFreq) \div clkCall.x < 256
              /\ clkCall.err = "too large" <=> (256 * clkCall.cpuFreq) \div clkCall.x > 256 * 65535
              /\ clkCall.err \in {"nil", "too small", "too large"}

\* ------------------------------------------------------------------------
\* Properties of the configuration setters.
\* ------------------------------------------------------------------------

\* The configuration after the i-th setter call.
ConfigAfter(i) == IF i = Len(cfgLog) THEN config ELSE cfgLog[i + 1].pre

\* The calls made were SetWrap(t, w); SetSidesetParams(n, opt, dirs);
\* SetWrap(t, w) with t, w < 32 and n <= 5.
WrapSidesetWrap ==
    /\ Len(cfgLog) = 3
    /\ cfgLog[1].op = "SetWrap" /\ cfgLog[2].op = "SetSidesetParams" /\ cfgLog[3].op = "SetWrap"
    /\ cfgLog[1].a = cfgLog[3].a /\ cfgLog[1].b = cfgLog[3].b
    /\ cfgLog[1].a < 32 /\ cfgLog[1].b < 32 /\ cfgLog[2].a <= 5

\* C19: SetWrap(t, w); SetSidesetParams(n, opt, dirs); SetWrap(t, w) leaves
\* the four register images as SetSidesetParams(n, opt, dirs); SetWrap(t, w)
\* does from the same starting configuration: the wrap fields hold t and w,
\* the side-set fields hold n, opt and dirs, and nothing else has changed.
C19_WrapSidesetCommute ==
    WrapSidesetWrap =>
        /\ config = SetWrap(SetSidesetParams(cfgLog[1].pre, cfgLog[2].a,
                                             cfgLog[2].b = 1, cfgLog[2].c = 1),
                            cfgLog[1].a, cfgLog[1].b)
        /\ config.ClkDiv = cfgLog[1].pre.ClkDiv
        /\ config.ShiftCtrl = cfgLog[1].pre.ShiftCtrl
        /\ config.PinCtrl = (cfgLog[1].pre.PinCtrl \ (29 .. 31)) \cup Field(cfgLog[2].a, 29)
        /\ config.ExecCtrl = (cfgLog[1].pre.ExecCtrl \ ((7 .. 16) \cup {29, 30}))
                             \cup Field(cfgLog[1].a, 7) \cup Field(cfgLog[1].b, 12)
                             \cup Field(cfgLog[2].b, 30) \cup Field(cfgLog[2].c, 29)

\* C19 witness: on the default configuration SetWrap(31, 0);
\* SetSidesetParams(5, false, true); SetWrap(31, 0) have been applied.
C19_Witness ==
    /\ WrapSidesetWrap
    /\ cfgLog[1].pre = DefaultStateMachineConfig
    /\ cfgLog[1].a = 31 /\ cfgLog[1].b = 0 /\ cfgLog[2].a = 5 /\ cfgLog[2].c = 1
    /\ config.ExecCtrl = (7 .. 11) \cup {29}

\* The bits of each register image that belong to the fields a setter sets.
OwnBits(op) ==
    CASE op = "SetClkDivIntFrac" -> [ZeroConfig EXCEPT !.ClkDiv = 8 .. 31]
      [] op = "SetWrap" ->
            [ZeroConfig EXCEPT !.ExecCtrl = EXECCTRL_WRAP_BOTTOM_Msk \cup EXECCTRL_WRAP_TOP_Msk]
      [] op = "SetInShift" ->
            [ZeroConfig EXCEPT !.ShiftCtrl = {SHIFTCTRL_IN_SHIFTDIR_Pos, SHIFTCTRL_AUTOPUSH_Pos}
                                             \cup SHIFTCTRL_PUSH_THRESH_Msk]
      [] op = "SetOutShift" ->
            [ZeroConfig EXCEPT !.ShiftCtrl = {SHIFTCTRL_OUT_SHIFTDIR_Pos, SHIFTCTRL_AUTOPULL_Pos}
                                             \cup SHIFTCTRL_PULL_THRESH_Msk]
      [] op = "SetSidesetParams" ->
            [ZeroConfig EXCEPT !.PinCtrl = PINCTRL_SIDESET_COUNT_Msk,
                               !.ExecCtrl = EXECCTRL_SIDE_EN_Msk \cup EXECCTRL_SIDE_PINDIR_Msk]
      [] op = "SetSidesetPins" -> [ZeroConfig EXCEPT !.PinCtrl = PINCTRL_SIDESET_BASE_Msk]
      [] op = "SetOutPins" ->
            [ZeroConfig EXCEPT !.PinCtrl = PINCTRL_OUT_BASE_Msk \cup PINCTRL_OUT_COUNT_Msk]
      [] op = "SetSetPins" ->
            [ZeroConfig EXCEPT !.PinCtrl = PINCTRL_SET_BASE_Msk \cup PINCTRL_SET_COUNT_Msk]
      [] op = "SetInPins" -> [ZeroConfig EXCEPT !.PinCtrl = PINCTRL_IN_BASE_Msk]
      [] op = "SetJmpPin" -> [ZeroConfig EXCEPT !.ExecCtrl = EXECCTRL_JMP_PIN_Msk]
      [] op = "SetOutSpecial" ->
            [ZeroConfig EXCEPT !.ExecCtrl = EXECCTRL_OUT_STICKY_Msk \cup EXECCTRL_INLINE_OUT_EN_Msk
                                            \cup EXECCTRL_OUT_EN_SEL_Msk]
      [] op = "SetMovStatus" ->
            [ZeroConfig EXCEPT !.ExecCtrl = EXECCTRL_STATUS_SEL_Msk \cup EXECCTRL_STATUS_N_Msk]
      [] op = "SetFIFOJoin" ->
            [ZeroConfig EXCEPT !.ShiftCtrl = SHIFTCTRL_FJOIN_TX_Msk \cup SHIFTCTRL_FJOIN_RX_Msk]

\* C20: a setter that does not panic on its arguments changes no bit
\* outside its own fields in ClkDiv, ExecCtrl, ShiftCtrl and PinCtrl.
C20_SettersKeepOtherFields ==
    \A i \in 1 .. Len(cfgLog) :
        ~cfgLog[i].panics =>
            \A r \in {"ClkDiv", "ExecCtrl", "ShiftCtrl", "PinCtrl"} :
                ConfigAfter(i)[r] \ OwnBits(cfgLog[i].op)[r]
                    = cfgLog[i].pre[r] \ OwnBits(cfgLog[i].op)[r]

\* ------------------------------------------------------------------------
\* Properties of claiming.
\* ------------------------------------------------------------------------

\* C21: with the calls made one at a time, TryClaim returns true exactly when
\* the claim bit was clear before the call and the bit is set after it;
\* ClaimStateMachine returns the lowest unclaimed state machine and marks it
\* claimed, and fails exactly when all four are claimed; no state machine
\* is handed out twice without an Unclaim in between.
C21_ClaimsExclusive ==
    /\ claimLast.op = "TryClaim" =>
          /\ claimLast.ok <=> claimLast.index \notin claimLast.pre
          /\ claimLast.index \in claimedSMMask
    /\ claimLast.op = "ClaimStateMachine" =>
          /\ claimLast.err # "nil" <=> SmIdx \subseteq claimLast.pre
          /\ claimLast.err = "nil" =>
                /\ claimLast.sm \in SmIdx \ claimLast.pre
                /\ \A i \in SmIdx \ claimLast.pre : claimLast.sm <= i
                /\ claimedSMMask = claimLast.pre \cup {claimLast.sm}
          /\ claimLast.err # "nil" => claimedSMMask = claimLast.pre
    /\ \A i \in SmIdx : granted[i] <= 1

\* C21 witness: ClaimStateMachine has been refused with all four state
\* machines claimed, each handed out once.
C21_Witness ==
    /\ claimLast.op = "ClaimStateMachine" /\ claimLast.err = "errStateMachineClaimed"
    /\ claimLast.pre = SmIdx
    /\ \A i \in SmIdx : granted[i] = 1

\* ------------------------------------------------------------------------
\* Properties of calls from two execution contexts.
\* ------------------------------------------------------------------------

\* Context c has returned from op with success.
Succeeded(c, op) == tasks[c].pc = "done" /\ tasks[c].op = op /\ tasks[c].ok

\* C22: when the callers serialize their AddProgram calls, two calls that
\* both succeed never return overlapping word ranges (the overlap of two
\* unserialized calls is the state C22_Witness describes).
C22_SerializedAddsDisjoint ==
    \A c, d \in Contexts :
        (c # d /\ Succeeded(c, "AddProgram") /\ Succeeded(d, "AddProgram")
            /\ tasks[c].locked /\ tasks[d].locked) =>
            TaskSpan(c) \cap TaskSpan(d) = {}

\* C22 witness: two AddProgram calls made without a lock have both
\* succeeded, both have stored their words, and their ranges overlap.
C22_Witness ==
    /\ Succeeded(1, "AddProgram") /\ Succeeded(2, "AddProgram")
    /\ ~tasks[1].locked /\ ~tasks[2].locked
    /\ tasks[1].wrote /\ tasks[2].wrote
    /\ TaskSpan(1) \cap TaskSpan(2) # {}

\* C23: when the callers serialize their claim calls, at most one of two
\* callers is told it owns a given state machine (two unserialized callers
\* both told so is the state C23_Witness describes).
C23_SerializedClaimsExclusive ==
    \A c, d \in Contexts :
        (c # d /\ tasks[c].pc = "done" /\ tasks[d].pc = "done"
            /\ tasks[c].op \in {"TryClaim", "ClaimStateMachine"}
            /\ tasks[d].op \in {"TryClaim", "ClaimStateMachine"}
            /\ tasks[c].locked /\ tasks[d].locked
            /\ tasks[c].index = tasks[d].index) =>
            ~(tasks[c].ok /\ tasks[d].ok)

\* C23 witness: two TryClaim calls on state machine 2 made without a lock
\* have both returned true.
C23_Witness ==
    /\ Succeeded(1, "TryClaim") /\ Succeeded(2, "TryClaim")
    /\ ~tasks[1].locked /\ ~tasks[2].locked
    /\ tasks[1].index = 2 /\ tasks[2].index = 2

\* ------------------------------------------------------------------------
\* Properties of SetPinsMasked and SetPindirsMasked.
\* ------------------------------------------------------------------------

\* The last call was one of the two, and its register accesses between the
\* clearing of OUT_STICKY and the two restoring writes.
IsPinCall == lastSm.op \in {"SetPinsMasked", "SetPindirsMasked"}
PinWrites == SubSeq(hwlog, 4, Len(hwlog) - 2)

\* The k-th pin of pinMask in ascending order.
NthPin(pinMask, k) ==
    CHOOSE p \in pinMask : Cardinality({q \in pinMask : q < p}) = k - 1

\* C24: the call clears OUT_STICKY of EXECCTRL before it executes the first
\* set instruction, and on return PINCTRL and EXECCTRL of the state machine
\* hold the values they held on entry.
C24_PinExecRestores ==
    IsPinCall =>
        /\ smRegs[pinLast.index].PinCtrl = pinLast.prePinCtrl
        /\ smRegs[pinLast.index].ExecCtrl = pinLast.preExecCtrl
        /\ \A j \in 1 .. Len(hwlog) :
              hwlog[j].reg = "INSTR" =>
                  /\ \E k \in 1 .. (j - 1) :
                        hwlog[k] = Access("EXECCTRL", pinLast.index, "ClearBits", {17})
                  /\ \A k \in 1 .. (j - 1) :
                        hwlog[k].reg = "EXECCTRL" => hwlog[k].op \in {"Get", "ClearBits"}

\* C24 witness: SetPinsMasked has run on a state machine whose EXECCTRL had
\* OUT_STICKY set, has executed set instructions, and the flag is set again.
C24_Witness ==
    /\ IsPinCall
    /\ pinLast.op = "SetPinsMasked" /\ pinLast.pinMask = {3, 17, 31}
    /\ 17 \in pinLast.preExecCtrl
    /\ 17 \in smRegs[pinLast.index].ExecCtrl
    /\ smRegs[pinLast.index].PinCtrl = pinLast.prePinCtrl

\* C29: the linear scan and the trailing-zero loop issue the same hardware
\* writes: for each set bit i of pinMask in ascending order, PINCTRL is set
\* to SET_COUNT = 1, SET_BASE = i and "set dest, bit i of valueMask" is
\* executed, and nothing is written for a clear bit.
C29_PinLoopsAgree ==
    IsPinCall =>
        /\ hwlog = setPinExec(
                       [hwNow EXCEPT !.regs[pinLast.index].PinCtrl = pinLast.prePinCtrl,
                                     !.regs[pinLast.index].ExecCtrl = pinLast.preExecCtrl],
                       pinLast.index, pinLast.dest, pinLast.valueMask, pinLast.pinMask,
                       ~pinLast.naive).log
        /\ Len(PinWrites) = 2 * Cardinality(pinLast.pinMask)
        /\ \A k \in 1 .. Cardinality(pinLast.pinMask) :
              LET i == NthPin(pinLast.pinMask, k)
              IN /\ PinWrites[2 * k - 1] =
                       Access("PINCTRL", pinLast.index, "Set", {26} \cup Field(i, 5))
                 /\ PinWrites[2 * k] =
                       Access("INSTR", pinLast.index, "Set",
                              BitsOf(57344 + 32 * pinLast.dest
                                     + (IF i \in pinLast.valueMask THEN 1 ELSE 0)))

\* C29 witness: SetPindirsMasked has run with the trailing-zero loop on
\* pins 3, 17 and 31 and has made six writes for them.
C29_Witness ==
    /\ IsPinCall
    /\ pinLast.op = "SetPindirsMasked" /\ ~pinLast.naive
    /\ pinLast.pinMask = {3, 17, 31} /\ pinLast.valueMask = {0, 17}
    /\ Len(PinWrites) = 6
    /\ PinWrites[4] = Access("INSTR", pinLast.index, "Set", BitsOf(57344 + 128 + 1))

\* The relative argument of the IRQ-addressing call made.
IrqRelative ==
    IF asmCall.m \in {"WaitIRQ", "EncodeWaitIRQ"} THEN asmCall.a \div 2 = 1 ELSE asmCall.a = 1

\* C27: the word of every IRQ-addressing encoder, of the assembler and of
\* the package, has the flag index in its low three bits and relative in
\* its bit 4.
C27_IrqIndexInWord ==
    asmCall.m \in {"IRQSet", "IRQClear", "WaitIRQ",
                   "EncodeIRQSet", "EncodeIRQClear", "EncodeWaitIRQ"} =>
        /\ asmWord % 8 = asmCall.b
        /\ ((asmWord \div 16) % 2 = 1) = IrqRelative

\* C30: ClkDivFromPeriod(period, cpuFreq) returns what splitClkdiv gives for
\* the exact value of 256 * period * cpuFreq / 1e9: the too-large error when
\* that value is above 256 * 65535, and otherwise its split into whole and
\* frac; the 64-bit product does not wrap into another result.
C30_PeriodProductExact ==
    clkCall.fn = "ClkDivFromPeriod" =>
        LET exact == ExactClkDivFromPeriod(clkCall.x, clkCall.cpuFreq)
        IN /\ clkCall.err = exact.err
           /\ clkCall.whole = exact.whole
           /\ clkCall.frac = exact.frac

\* C25: a dmaPush or dmaPull call that has begun returns, success or a
\* timeout error, whatever the hardware does and whatever the timeout of
\* the deadliner is, zero included.
C25_TransfersTerminate == (dmaPc = "contend") ~> (dmaPc = "done")

\* C28: a call that returns the timeout error has started its transfer,
\* then written CHAN_ABORT as its last write and left the abort loop (the
\* bit fell or the deadline of the loop expired); a call that returns the
\* contention-timeout error has written no register and set no abort bit.
C28_AbortBeforeTimeout ==
    dmaPc = "done" =>
        /\ dmaErr = "timeout" =>
              /\ Len(dmaWrites) = Len(startWrites(dmaOp)) + 1
              /\ SubSeq(dmaWrites, 1, Len(startWrites(dmaOp))) = startWrites(dmaOp)
              /\ dmaWrites[Len(dmaWrites)] = DmaWrite("CHAN_ABORT", "Set", {"chMask"})
              /\ dmaAbort => (dmaPrinted /\ expired(dmaDeadline, dmaNow))
        /\ dmaErr = "contention timeout" =>
              /\ dmaWrites = << >>
              /\ ~dmaAbort

\* C28 witness: a transfer was started, timed out and was aborted, and the
\* abort bit never fell.
C28_Witness ==
    /\ dmaPc = "done" /\ dmaErr = "timeout" /\ dmaOp = "dmaPull"
    /\ dmaAbort /\ dmaPrinted
    /\ Len(dmaWrites) = 6

\* C26: SPI.Tx(w, r) returns nil only with every byte of w written to the
\* TX FIFO and as many received bytes stored in r, and it returns the
\* timeout error only if the FIFOs stalled: in some iteration the TX FIFO
\* was full with bytes left to send or the RX FIFO was empty with bytes
\* left to receive.
C26_TxCompletes ==
    spiPc = "done" =>
        /\ spiErr = "nil" => (spiTxRemain = 0 /\ Len(spiR) = Len(spiW))
        /\ spiErr = "pioSPI timeout" => spiFifoStalled

=============================================================================
